---- MODULE Spec2Model ----
(***************************************************************************)
(* Session lifecycle manager of the PropertyFlow frontend                  *)
(* (utils/sessionManager.ts, class SessionManager, and                     *)
(* contexts/AuthContext.new.tsx).                                          *)
(*                                                                         *)
(* JavaScript runs one logical thread: a handler runs without interruption *)
(* from one suspension point (an await on the identity provider, on the    *)
(* storage health checker, on the listeners or on a timer) to the next.    *)
(* Every action below is one such run of one task.                         *)
(***************************************************************************)
EXTENDS Integers, Sequences, FiniteSets, TLC

(***************************************************************************)
(* Bounds of the model                                                     *)
(***************************************************************************)
MaxSegs == 4          \* most '.'-separated segments of an access token
MaxTime == 2          \* clock ticks the resolver specification lets pass
MaxCalls == 3         \* calls, provider events, clock steps and outages in one run
MaxTicks == 1         \* steps of the clock in one run
MaxFaults == 5        \* requests of one validation that fail in transit

(***************************************************************************)
(* Constants of the program                                                *)
(***************************************************************************)
VALIDATION_CACHE_DURATION == 300000
MAX_RETRY_ATTEMPTS == 5
RETRY_DELAY_BASE == 1000
SESSION_TIMEOUT == 86400000
ACTIVITY_CHECK_INTERVAL == 300000
ExpiryMargin == 60000      \* "expiresIn < 60000"

(***************************************************************************)
(* Values                                                                  *)
(***************************************************************************)
Users == {"u1", "u2"}
Tenants == {"tenant-a", "tenant-b"}
Undefined == "undefined"      \* JavaScript undefined / null
EmptyString == ""
Throw == "THROW"              \* an exception raised by a callee
NoSession == [user |-> Undefined]
NoContext == [user_id |-> Undefined]

OrElse_NoFallback(x, y) == x

\* x || y of JavaScript, on the values the model uses
OrElse(x, y) == IF x \in {Undefined, EmptyString} THEN y ELSE x

(***************************************************************************)
(* Access tokens.  A token is a string; the model keeps of it what the     *)
(* code reads: whether it is empty, whether it is the literal              *)
(* "mock-token-123", the number of its '.'-separated segments, the         *)
(* alphabet its second segment is written in, what that segment decodes    *)
(* to, and the tenant_id member of the decoded object.                     *)
(*   alphabet "plain"   : letters and digits only                          *)
(*            "url"     : base64url, holds '-' or '_' (RFC 7515 JWTs)      *)
(*            "std"     : standard base64, holds '+' or '/'                *)
(*            "invalid" : holds a character of neither alphabet            *)
(***************************************************************************)
Alphabets == {"plain", "url", "std", "invalid"}
PayloadTexts == {"object", "null", "scalar", "notjson"}
ClaimValues == Tenants \cup {Undefined, EmptyString}

EmptyToken ==
    [form |-> "empty", segs |-> 1, alphabet |-> "plain", text |-> "notjson",
     claim |-> Undefined]
MockToken ==
    [form |-> "mock", segs |-> 1, alphabet |-> "invalid", text |-> "notjson",
     claim |-> Undefined]
TextTokens ==
    { [form |-> "text", segs |-> n, alphabet |-> a, text |-> x, claim |-> c] :
        n \in 1..MaxSegs, a \in Alphabets, x \in PayloadTexts, c \in ClaimValues }
WellKeptTokens ==
    { k \in TextTokens :
        /\ (k.text # "object" => k.claim = Undefined)
        /\ (k.segs = 1 => k.alphabet = "plain" /\ k.text = "notjson") }
Tokens == {EmptyToken, MockToken} \cup WellKeptTokens

\* A JWT as the identity provider issues it: three segments, the payload a
\* base64url-encoded JSON object carrying the tenant claim c.
JwtFor(c, a) ==
    [form |-> "text", segs |-> 3, alphabet |-> a, text |-> "object", claim |-> c]

\* atob(segment): forgiving-base64 decoding accepts the standard alphabet
\* only; '-' and '_' of base64url raise InvalidCharacterError.
Atob(k) == IF k.alphabet \in {"plain", "std"} THEN k.text ELSE Throw

\* JSON.parse(text)
JSONParse(text) == IF text \in {"notjson", Throw} THEN Throw ELSE text

\* payload.tenant_id: a TypeError on null, undefined on a scalar
PayloadTenant(k, parsed) ==
    CASE parsed = Throw -> Throw
      [] parsed = "null" -> Throw
      [] parsed = "scalar" -> Undefined
      [] OTHER -> k.claim

\* the catch block of createSessionContext
MetadataTenant(s) == OrElse(s.app_tenant, OrElse(s.user_tenant, EmptyString))

\* the tenant_id createSessionContext computes
TenantOfSession(s) ==
    LET k == s.token IN
    IF k.form # "empty" /\ k.segs >= 2 /\ k.segs = 3
    THEN LET claim == PayloadTenant(k, JSONParse(Atob(k))) IN
         IF claim = Throw THEN MetadataTenant(s) ELSE OrElse(claim, EmptyString)
    ELSE IF k.form = "mock" THEN "tenant-a"
    ELSE EmptyString

createSessionContext(s, t) ==
    [user_id |-> s.user,
     tenant_id |-> TenantOfSession(s),
     email |-> s.user,
     session_id |-> <<s.user, t>>,
     login_timestamp |-> t,
     last_activity |-> t]

\* the sessions the resolver is tried on
MetaValues == Tenants \cup {Undefined}
ResolverInputs ==
    { [user |-> u, token |-> k, app_tenant |-> a, user_tenant |-> m] :
        u \in Users, k \in Tokens, a \in MetaValues, m \in MetaValues }

(***************************************************************************)
(* Sessions of the identity provider                                       *)
(***************************************************************************)
\* the lifetime the provider gives a credential (expires_at - issue time)
SessionLife == 5 * ExpiryMargin

\* the session the provider holds for user u in tenant tn: credential
\* number c, a JWT with the tenant claim; expires_at is kept in ms
IssuedSession(u, tn, c, exp) ==
    [user |-> u, token |-> JwtFor(tn, "plain"), app_tenant |-> Undefined,
     user_tenant |-> Undefined, cred |-> c, expires_at |-> exp]

Expiring_NeverChecked(s, t) == FALSE

\* "if (expiresAt) { ... expiresAt * 1000 - Date.now() < 60000"
Expiring(s, t) == s.expires_at # 0 /\ s.expires_at - t < ExpiryMargin

(***************************************************************************)
(* Storage.  A key of localStorage is kept as its kind (the name the       *)
(* program gives it) and the user and tenant it is scoped to.              *)
(***************************************************************************)
TenantCacheKinds == {"city_access", "bootstrap_data", "permissions_cache"}
LegacyKinds == {"city_access_cache", "bootstrap_cache", "auth_cache", "user_context"}
UserLevelKinds == {"probe"}
SessionMetadataKind == "session_metadata"
SbAuthKey == [kind |-> "sb_auth_token", user |-> Undefined, tenant |-> Undefined]
LegacyKey(kind) == [kind |-> kind, user |-> Undefined, tenant |-> Undefined]

\* the key storageManager gives a kind under a context
ScopedKey(kind, ctx) ==
    IF kind \in UserLevelKinds
    THEN [kind |-> kind, user |-> ctx.user_id, tenant |-> Undefined]
    ELSE [kind |-> kind, user |-> ctx.user_id, tenant |-> ctx.tenant_id]

SM_set(store, kind, ctx) == store \cup {ScopedKey(kind, ctx)}
SM_remove(store, kind, ctx) == store \ {ScopedKey(kind, ctx)}
SM_clearUserData(store, ctx) == {k \in store : k.user # ctx.user_id}
SM_clearAll(store) == {}

\* key.includes('supabase') || includes('auth') || includes('token') ||
\* includes('session')
IsAuthKey(k) == k.kind \in {"sb_auth_token", "auth_cache", SessionMetadataKind}

\* legacyPatterns.some(pattern => key.includes(pattern) || key.startsWith(pattern))
IsLegacyKey(k) == k.kind \in LegacyKinds

clearLegacyStorage(store) == {k \in store : ~IsLegacyKey(k)}

\* the localStorage loop of clearAuthState
RemoveAuthKeys(store) == {k \in store : ~IsAuthKey(k)}

\* step 1 and 2 of performComprehensiveCleanup, with ctx the value of
\* this.currentContext when it runs
ComprehensiveCleanupOfStorage(store, ctx) ==
    clearLegacyStorage(IF ctx # NoContext THEN SM_clearUserData(store, ctx) ELSE store)

performTenantSpecificCleanup_WholeUser(store, ctx) ==
    {k \in store : k.user # ctx.user_id}

\* the key loop of performTenantSpecificCleanup
performTenantSpecificCleanup(store, ctx) ==
    SM_remove(SM_remove(SM_remove(store, "city_access", ctx),
                        "bootstrap_data", ctx),
              "permissions_cache", ctx)

performUserSpecificCleanup(store, ctx) == SM_clearUserData(store, ctx)

(***************************************************************************)
(* Promises and tasks                                                      *)
(***************************************************************************)
RECURSIVE Pow2(_)
Pow2(n) == IF n <= 0 THEN 1 ELSE 2 * Pow2(n - 1)

Valid(s) == [isValid |-> TRUE, session |-> s, error |-> Undefined]
Invalid(msg) == [isValid |-> FALSE, session |-> NoSession, error |-> msg]

TaskIds == {1, 2}
NoResult == [kind |-> "none"]
IdleTask ==
    [op |-> "idle", pc |-> "idle", ret |-> <<>>, vid |-> 0, rid |-> 0,
     own |-> FALSE, prev |-> NoContext, newc |-> NoContext,
     ctx0 |-> NoContext, prov0 |-> Undefined, signedOut |-> FALSE,
     detected |-> FALSE, wiped |-> FALSE,
     called |-> {}, waitL |-> {}, rejected |-> FALSE,
     expired |-> FALSE, seq |-> 0,
     res |-> NoResult]

VARIABLES
    now,        \* Date.now(), in ms
    ticks,      \* steps the clock has made
    rsIn,       \* the session handed to createSessionContext on its own
    rsOut,      \* the context it returned, NoContext before the call
    provSession,    \* the session the identity provider holds, or NoSession
    nextCred,       \* number of the next credential the provider issues
    provEvents,     \* auth state change events not yet delivered
    storage,        \* the keys of localStorage
    smContext,      \* the context of storageManager
    sessionValidationPromise,   \* 0 (null) or the index of a validation
    lastValidationTime,
    isRefreshing,
    refreshPromise,             \* 0 (null) or the index of a refresh
    currentContext,
    sessionChangeListeners,
    isCleanupInProgress,
    validations,    \* the runs of performValidation, in the order started
    refreshes,      \* the runs of performRefresh, in the order started
    tasks,          \* the callers of the manager
    calls,          \* entry-point calls and provider events so far
    events,         \* the SessionChangeEvents published, in order
    faults,         \* requests to the provider that failed in transit
    gLastStart,     \* history: when the last validation started, -1 if none
    gInval,         \* history: the cache was invalidated since that start
    isLoggingOut,   \* window.__isLoggingOut of the auth provider component
    user,           \* the state "user" of that component: a user id or null
    isAuthenticated,    \* its state "isAuthenticated"
    authEvents      \* auth state change events not yet delivered to it

clockVars == <<now, ticks>>
\* what no method of the manager reads or writes
outerVars == <<rsIn, rsOut, isLoggingOut, user, isAuthenticated, authEvents>>
provVars == <<provSession, nextCred, provEvents>>
storeVars == <<storage, smContext>>
cacheVars == <<sessionValidationPromise, lastValidationTime, gLastStart, gInval>>
slotVars == <<isRefreshing, refreshPromise>>
ctxVars == <<currentContext, isCleanupInProgress>>
vars ==
    <<now, ticks, rsIn, rsOut, provSession, nextCred, provEvents, storage,
      smContext, sessionValidationPromise, lastValidationTime, isRefreshing,
      refreshPromise, currentContext, sessionChangeListeners,
      isCleanupInProgress, validations, refreshes, tasks, calls, events,
      faults, gLastStart, gInval, isLoggingOut, user, isAuthenticated,
      authEvents>>

\* the manager right after its construction (field initialisers, lines 46-60)
InitManager ==
    /\ sessionValidationPromise = 0
    /\ lastValidationTime = 0
    /\ isRefreshing = FALSE
    /\ refreshPromise = 0
    /\ currentContext = NoContext
    /\ sessionChangeListeners = {}
    /\ isCleanupInProgress = FALSE
    /\ validations = <<>>
    /\ refreshes = <<>>
    /\ tasks = [t \in TaskIds |-> IdleTask]
    /\ calls = 0
    /\ events = <<>>
    /\ faults = 0
    /\ gLastStart = -1
    /\ gInval = FALSE
    /\ smContext = NoContext
    /\ provEvents = <<>>

\* the sessions a page load can find the provider holding
InitialSessions ==
    {NoSession} \cup
    { IssuedSession("u1", "tenant-a", 1, SessionLife) }

(***************************************************************************)
(* The clock                                                               *)
(***************************************************************************)
ClockSteps == {ExpiryMargin, VALIDATION_CACHE_DURATION}

\* a run makes MaxCalls entry-point calls, provider events, clock steps and
\* outages (spells of transit failures) in all
WithinBudget == calls + ticks + (IF faults > 0 THEN 1 ELSE 0) < MaxCalls

Tick ==
    /\ ticks < MaxTicks
    /\ WithinBudget
    /\ \E d \in ClockSteps : now' = now + d
    /\ ticks' = ticks + 1
    /\ UNCHANGED <<faults, outerVars, provVars, storeVars, cacheVars, slotVars,
                   ctxVars, sessionChangeListeners, validations, refreshes, tasks,
                   calls, events>>

(***************************************************************************)
(* validateSession and performValidation                                   *)
(***************************************************************************)
CacheFresh_ComparisonReversed ==
    /\ sessionValidationPromise # 0
    /\ now - lastValidationTime > VALIDATION_CACHE_DURATION

CacheFresh_WindowInclusive ==
    /\ sessionValidationPromise # 0
    /\ now - lastValidationTime <= VALIDATION_CACHE_DURATION

\* the cache test of validateSession
CacheFresh ==
    /\ sessionValidationPromise # 0
    /\ now - lastValidationTime < VALIDATION_CACHE_DURATION

\* performValidation up to its first await: attempt 1 has called getSession
NewValidation ==
    [pc |-> "getSession", attempt |-> 1, probes |-> 0, err |-> Undefined,
     sess |-> NoSession, rid |-> 0, own |-> FALSE, why |-> Undefined,
     delays |-> <<>>,
     fresh |-> (gLastStart = -1 \/ gInval
                    \/ now - gLastStart >= VALIDATION_CACHE_DURATION),
     res |-> Invalid("pending")]

\* a settled promise keeps its value only (and the history: the probes it
\* made and the flag fresh)
SettledValidation(r, res) ==
    [pc |-> "done", attempt |-> 0, probes |-> r.probes, err |-> Undefined,
     sess |-> NoSession, rid |-> 0, own |-> FALSE, why |-> Undefined,
     delays |-> <<>>, fresh |-> r.fresh, res |-> res]

\* validateSession(): vid is the validation whose promise it returns
validateSession(vid) ==
    IF CacheFresh
    THEN /\ vid = sessionValidationPromise
         /\ UNCHANGED <<cacheVars, validations>>
    ELSE /\ vid = Len(validations) + 1
         /\ lastValidationTime' = now
         /\ sessionValidationPromise' = vid
         /\ validations' = Append(validations, NewValidation)
         /\ gLastStart' = now
         /\ gInval' = FALSE

\* performRefresh up to its first await: the provider's refresh is called
NewRefresh ==
    [pc |-> "primary", calls |-> 1, sess |-> NoSession, res |-> NoSession,
     cacheCleared |-> FALSE]

SettledRefresh(r, res) ==
    [pc |-> "done", calls |-> r.calls, sess |-> NoSession, res |-> res,
     cacheCleared |-> r.cacheCleared]

\* refreshSession() up to its await: rid is the refresh it awaits, own tells
\* whether this call created it and so runs the finally block
refreshSession(rid, own) ==
    IF isRefreshing /\ refreshPromise # 0
    THEN /\ rid = refreshPromise
         /\ own = FALSE
         /\ UNCHANGED <<slotVars, refreshes>>
    ELSE /\ rid = Len(refreshes) + 1
         /\ own = TRUE
         /\ isRefreshing' = TRUE
         /\ refreshPromise' = rid
         /\ refreshes' = Append(refreshes, NewRefresh)

\* the finally block of refreshSession
refreshSessionFinally(own) ==
    IF own
    THEN isRefreshing' = FALSE /\ refreshPromise' = 0
    ELSE UNCHANGED slotVars

CatchValidation_LinearBackoff(r, msg) ==
    IF r.attempt < MAX_RETRY_ATTEMPTS
    THEN [r EXCEPT !.err = msg, !.pc = "backoff",
                   !.delays = Append(@, RETRY_DELAY_BASE * r.attempt)]
    ELSE SettledValidation(r,
             Invalid(OrElse(msg, "Session validation failed after all retries")))

\* the catch block of performValidation and the code after the loop
CatchValidation(r, msg) ==
    IF r.attempt < MAX_RETRY_ATTEMPTS
    THEN [r EXCEPT !.err = msg, !.pc = "backoff",
                   !.delays = Append(@, RETRY_DELAY_BASE * Pow2(r.attempt - 1))]
    ELSE SettledValidation(r,
             Invalid(OrElse(msg, "Session validation failed after all retries")))

ErrorMessages == {"network error"}

\* the call of this.refreshSession() inside performValidation
ValidationCallsRefresh(v, why) ==
    \E rid \in 1..(Len(refreshes) + 1), own \in BOOLEAN :
        /\ refreshSession(rid, own)
        /\ validations' = [validations EXCEPT
               ![v] = [@ EXCEPT !.pc = "refresh", !.rid = rid, !.own = own,
                                !.why = why]]

\* a request of validation v fails in transit (the call throws); in one run
\* this happens to one validation only
TransitFailure(v) ==
    /\ faults < MaxFaults
    /\ IF faults = 0 THEN WithinBudget ELSE validations[v].attempt > 1

\* supabase.auth.getSession() answers an attempt of performValidation
V_GetSessionReturns(v) ==
    /\ v \in DOMAIN validations
    /\ validations[v].pc = "getSession"
    /\ \/ \E msg \in ErrorMessages :
            /\ TransitFailure(v)
            /\ faults' = faults + 1
            /\ validations' = [validations EXCEPT ![v] = CatchValidation(@, msg)]
            /\ UNCHANGED <<slotVars, refreshes>>
       \/ /\ provSession = NoSession
          /\ validations' = [validations EXCEPT
                 ![v] = SettledValidation(@, Invalid("No session found"))]
          /\ UNCHANGED <<slotVars, refreshes, faults>>
       \/ /\ provSession # NoSession
          /\ Expiring(provSession, now)
          /\ ValidationCallsRefresh(v, "Failed to refresh expired token")
          /\ UNCHANGED faults
       \/ /\ provSession # NoSession
          /\ ~Expiring(provSession, now)
          /\ validations' = [validations EXCEPT
                 ![v] = [@ EXCEPT !.pc = "getUser", !.probes = @ + 1,
                                  !.sess = provSession]]
          /\ UNCHANGED <<slotVars, refreshes, faults>>
    /\ UNCHANGED <<clockVars, outerVars, provVars, storeVars, cacheVars, ctxVars,
                   sessionChangeListeners, tasks, calls, events>>

\* supabase.auth.getUser(access_token) answers: the probe
V_GetUserReturns(v) ==
    /\ v \in DOMAIN validations
    /\ validations[v].pc = "getUser"
    /\ \/ \E msg \in ErrorMessages :
            /\ TransitFailure(v)
            /\ faults' = faults + 1
            /\ validations' = [validations EXCEPT ![v] = CatchValidation(@, msg)]
            /\ UNCHANGED <<slotVars, refreshes>>
       \/ \E msg \in {"invalid JWT", EmptyString, Undefined} :
            /\ ValidationCallsRefresh(v, OrElse(msg, "User validation failed"))
            /\ UNCHANGED faults
       \/ /\ provSession # NoSession
          /\ provSession.user = validations[v].sess.user
          /\ validations' = [validations EXCEPT
                 ![v] = SettledValidation(@, Valid(validations[v].sess))]
          /\ UNCHANGED <<slotVars, refreshes, faults>>
    /\ UNCHANGED <<clockVars, outerVars, provVars, storeVars, cacheVars, ctxVars,
                   sessionChangeListeners, tasks, calls, events>>

\* the refresh performValidation awaits has settled
V_RefreshReturns(v) ==
    /\ v \in DOMAIN validations
    /\ validations[v].pc = "refresh"
    /\ refreshes[validations[v].rid].pc = "done"
    /\ refreshSessionFinally(validations[v].own)
    /\ LET refreshed == refreshes[validations[v].rid].res IN
       validations' = [validations EXCEPT
           ![v] = SettledValidation(@, IF refreshed # NoSession
                                       THEN Valid(refreshed)
                                       ELSE Invalid(validations[v].why))]
    /\ UNCHANGED <<clockVars, faults, outerVars, provVars, storeVars, cacheVars, ctxVars,
                   sessionChangeListeners, refreshes, tasks, calls, events>>

\* the backoff timer of performValidation fires: the next attempt starts
V_BackoffDone(v) ==
    /\ v \in DOMAIN validations
    /\ validations[v].pc = "backoff"
    /\ validations' = [validations EXCEPT
           ![v] = [@ EXCEPT !.pc = "getSession", !.attempt = @ + 1]]
    /\ UNCHANGED <<clockVars, faults, outerVars, provVars, storeVars, cacheVars, slotVars,
                   ctxVars, sessionChangeListeners, refreshes, tasks, calls, events>>

(***************************************************************************)
(* performRefresh                                                          *)
(***************************************************************************)
\* the session a successful refresh makes the provider hold
RefreshedSession ==
    [provSession EXCEPT !.cred = nextCred, !.expires_at = now + SessionLife]

\* "this.sessionValidationPromise = null; this.lastValidationTime = 0"
InvalidateCache ==
    /\ sessionValidationPromise' = 0
    /\ lastValidationTime' = 0
    /\ gInval' = TRUE
    /\ UNCHANGED gLastStart

\* a promise of performRefresh that rejects
RefreshThrows == [user |-> Throw]

CatchRefresh_Rethrows == RefreshThrows

\* "catch (error) { ...; return null; }" of performRefresh
CatchRefresh == NoSession

\* supabase.auth.refreshSession() answers
R_PrimaryReturns(r) ==
    /\ r \in DOMAIN refreshes
    /\ refreshes[r].pc = "primary"
    /\ \/ \* the call throws: the outer catch block
          /\ refreshes' = [refreshes EXCEPT ![r] = SettledRefresh(@, CatchRefresh)]
          /\ UNCHANGED provVars
       \/ \* it answers neither error nor session, or answers an error while
          \* no stored refresh token can be used: null
          /\ refreshes' = [refreshes EXCEPT ![r] = SettledRefresh(@, NoSession)]
          /\ UNCHANGED provVars
       \/ \* an error, and localStorage holds a session with a refresh token:
          \* refreshSession({refresh_token}) is called
          /\ SbAuthKey \in storage
          /\ refreshes' = [refreshes EXCEPT
                 ![r] = [@ EXCEPT !.pc = "fallback", !.calls = @ + 1]]
          /\ UNCHANGED provVars
       \/ \* a session: setSession is called to persist it
          /\ provSession # NoSession
          /\ provSession' = RefreshedSession
          /\ refreshes' = [refreshes EXCEPT
                 ![r] = [@ EXCEPT !.pc = "persist", !.sess = RefreshedSession]]
          /\ nextCred' = nextCred + 1
          /\ UNCHANGED provEvents
    /\ UNCHANGED <<clockVars, faults, outerVars, storeVars, cacheVars, slotVars, ctxVars,
                   sessionChangeListeners, validations, tasks, calls, events>>

\* setSession answers (or throws, which is caught): the cache is cleared
R_PersistReturns(r) ==
    /\ r \in DOMAIN refreshes
    /\ refreshes[r].pc = "persist"
    /\ InvalidateCache
    /\ refreshes' = [refreshes EXCEPT
           ![r] = SettledRefresh([@ EXCEPT !.cacheCleared = TRUE], refreshes[r].sess)]
    /\ UNCHANGED <<clockVars, faults, outerVars, provVars, storeVars, slotVars, ctxVars,
                   sessionChangeListeners, validations, tasks, calls, events>>

\* refreshSession({refresh_token}) answers
R_FallbackReturns(r) ==
    /\ r \in DOMAIN refreshes
    /\ refreshes[r].pc = "fallback"
    /\ \/ /\ refreshes' = [refreshes EXCEPT ![r] = SettledRefresh(@, NoSession)]
          /\ UNCHANGED provVars
       \/ /\ provSession # NoSession
          /\ provSession' = RefreshedSession
          /\ refreshes' = [refreshes EXCEPT
                 ![r] = [@ EXCEPT !.pc = "persist2", !.sess = RefreshedSession]]
          /\ nextCred' = nextCred + 1
          /\ UNCHANGED provEvents
    /\ UNCHANGED <<clockVars, faults, outerVars, storeVars, cacheVars, slotVars, ctxVars,
                   sessionChangeListeners, validations, tasks, calls, events>>

\* setSession answers on the fallback path: a throw is caught by the inner
\* catch and null is returned; the cache is not touched
R_Persist2Returns(r) ==
    /\ r \in DOMAIN refreshes
    /\ refreshes[r].pc = "persist2"
    /\ \/ refreshes' = [refreshes EXCEPT
              ![r] = SettledRefresh(@, refreshes[r].sess)]
       \/ refreshes' = [refreshes EXCEPT ![r] = SettledRefresh(@, NoSession)]
    /\ UNCHANGED <<clockVars, faults, outerVars, provVars, storeVars, cacheVars, slotVars,
                   ctxVars, sessionChangeListeners, validations, tasks, calls, events>>

(***************************************************************************)
(* Tasks: the calls of the manager's entry points and its event handlers   *)
(***************************************************************************)
\* a call takes the first task that runs nothing (its last call, if any,
\* has returned; the task keeps what that call returned)
Free(t) == tasks[t].pc \in {"idle", "done"}
Idle(t) == Free(t) /\ \A s \in TaskIds : s < t => ~Free(s)

\* a task whose call has returned res keeps that and what the call found
Done(rec, res) ==
    [IdleTask EXCEPT !.op = rec.op, !.pc = "done", !.ctx0 = rec.ctx0,
                     !.prov0 = rec.prov0, !.signedOut = rec.signedOut,
                     !.detected = rec.detected, !.wiped = rec.wiped,
                     !.expired = rec.expired, !.seq = rec.seq, !.res = res]

\* a task that returns from a callee to the pc on top of ret
Return(rec) ==
    IF Head(rec.ret) = "done"
    THEN Done(rec, rec.res)
    ELSE [rec EXCEPT !.pc = Head(rec.ret), !.ret = Tail(rec.ret)]

SessionChangeEvent(type, prev, new, cleaned) ==
    [type |-> type, previous_context |-> prev, new_context |-> new,
     cleanup_performed |-> cleaned, timestamp |-> now]

\* the listeners the application registers, named by what a call of them
\* does: complete, raise when called, or return a promise that rejects
Listeners == {"resolves", "throws", "rejects"}

\* the listeners "Array.from(this.sessionChangeListeners).map(async ...)"
\* calls: an async function turns an exception raised in its body into the
\* rejection of its promise, so the map goes through the whole array
CalledListeners(ls) == ls

WrapperSettles_NoCatch(l) == IF l = "resolves" THEN "fulfilled" ELSE "rejected"

\* how the promise of "async listener => { try { await listener(event); }
\* catch (error) { console.error(...) } }" settles
WrapperSettles(l) == "fulfilled"

\* what a task holds whose await has raised
Raised == [kind |-> "throw"]

\* notifySessionChange(ev) up to "await Promise.all(promises)": every
\* listener registered now has been called; cont is where the caller resumes
notifySessionChange(t, rec, ev, cont) ==
    /\ events' = Append(events, ev)
    /\ tasks' = [tasks EXCEPT
           ![t] = [rec EXCEPT !.pc = "notify",
                              !.called = CalledListeners(sessionChangeListeners),
                              !.waitL = CalledListeners(sessionChangeListeners),
                              !.rejected = FALSE,
                              !.ret = <<cont>> \o rec.ret]]

\* a listener called by notifySessionChange completes or raises, and the
\* promise of its wrapper settles
ListenerDone(t) ==
    /\ tasks[t].pc = "notify"
    /\ \E l \in tasks[t].waitL :
           tasks' = [tasks EXCEPT
               ![t] = [@ EXCEPT !.waitL = @ \ {l},
                                !.rejected = @ \/ WrapperSettles(l) = "rejected"]]
    /\ UNCHANGED <<clockVars, faults, outerVars, provVars, storeVars, cacheVars, slotVars,
                   ctxVars, sessionChangeListeners, validations, refreshes, calls,
                   events>>

NotifyReturns_FirstSettled(t) ==
    /\ tasks[t].pc = "notify"
    /\ tasks' = [tasks EXCEPT ![t] = Return(@)]
    /\ UNCHANGED <<clockVars, faults, outerVars, provVars, storeVars, cacheVars, slotVars,
                   ctxVars, sessionChangeListeners, validations, refreshes, calls,
                   events>>

\* Promise.all(promises) of notifySessionChange settles: fulfilled once
\* every promise is, rejected as soon as one is
NotifyReturns(t) ==
    /\ tasks[t].pc = "notify"
    /\ tasks[t].rejected \/ tasks[t].waitL = {}
    /\ tasks' = [tasks EXCEPT
           ![t] = IF tasks[t].rejected THEN Done(@, Raised) ELSE Return(@)]
    /\ UNCHANGED <<clockVars, faults, outerVars, provVars, storeVars, cacheVars, slotVars,
                   ctxVars, sessionChangeListeners, validations, refreshes, calls,
                   events>>

\* addSessionChangeListener(l)
addSessionChangeListener(l) ==
    /\ l \notin sessionChangeListeners
    /\ sessionChangeListeners' = sessionChangeListeners \cup {l}
    /\ UNCHANGED <<clockVars, faults, outerVars, provVars, storeVars, cacheVars, slotVars,
                   ctxVars, validations, refreshes, tasks, calls, events>>

\* removeSessionChangeListener(l)
removeSessionChangeListener(l) ==
    /\ WithinBudget
    /\ l \in sessionChangeListeners
    /\ sessionChangeListeners' = sessionChangeListeners \ {l}
    /\ calls' = calls + 1
    /\ UNCHANGED <<clockVars, faults, outerVars, provVars, storeVars, cacheVars, slotVars,
                   ctxVars, validations, refreshes, tasks, events>>

(***************************************************************************)
(* validateSession(), refreshSession() and ensureValidSession() as called  *)
(***************************************************************************)
CallValidate(t) ==
    /\ Idle(t)
    /\ WithinBudget
    /\ \E vid \in 1..(Len(validations) + 1) :
         /\ validateSession(vid)
         /\ tasks' = [tasks EXCEPT
                ![t] = [IdleTask EXCEPT !.op = "validateSession",
                                        !.pc = "validate_await", !.vid = vid]]
    /\ calls' = calls + 1
    /\ UNCHANGED <<clockVars, faults, outerVars, provVars, storeVars, slotVars, ctxVars,
                   sessionChangeListeners, refreshes, events>>

ValidateReturns(t) ==
    /\ tasks[t].pc = "validate_await"
    /\ validations[tasks[t].vid].pc = "done"
    /\ tasks' = [tasks EXCEPT
           ![t] = Done(@, validations[tasks[t].vid].res)]
    /\ UNCHANGED <<clockVars, faults, outerVars, provVars, storeVars, cacheVars, slotVars,
                   ctxVars, sessionChangeListeners, validations, refreshes, calls,
                   events>>

CallRefresh(t) ==
    /\ Idle(t)
    /\ WithinBudget
    /\ \E rid \in 1..(Len(refreshes) + 1), own \in BOOLEAN :
         /\ refreshSession(rid, own)
         /\ tasks' = [tasks EXCEPT
                ![t] = [IdleTask EXCEPT !.op = "refreshSession",
                                        !.pc = "refresh_await", !.rid = rid,
                                        !.own = own]]
    /\ calls' = calls + 1
    /\ UNCHANGED <<clockVars, faults, outerVars, provVars, storeVars, cacheVars, ctxVars,
                   sessionChangeListeners, validations, events>>

RefreshReturns(t) ==
    /\ tasks[t].pc = "refresh_await"
    /\ refreshes[tasks[t].rid].pc = "done"
    /\ refreshSessionFinally(tasks[t].own)
    /\ tasks' = [tasks EXCEPT
           ![t] = Done(@, refreshes[tasks[t].rid].res)]
    /\ UNCHANGED <<clockVars, faults, outerVars, provVars, storeVars, cacheVars, ctxVars,
                   sessionChangeListeners, validations, refreshes, calls, events>>

CallEnsure(t) ==
    /\ Idle(t)
    /\ WithinBudget
    /\ \E vid \in 1..(Len(validations) + 1) :
         /\ validateSession(vid)
         /\ tasks' = [tasks EXCEPT
                ![t] = [IdleTask EXCEPT !.op = "ensureValidSession",
                                        !.pc = "ensure_awaitV", !.vid = vid]]
    /\ calls' = calls + 1
    /\ UNCHANGED <<clockVars, faults, outerVars, provVars, storeVars, slotVars, ctxVars,
                   sessionChangeListeners, refreshes, events>>

\* "const validation = await this.validateSession()" settles
EnsureAfterValidation(t) ==
    /\ tasks[t].pc = "ensure_awaitV"
    /\ validations[tasks[t].vid].pc = "done"
    /\ LET validation == validations[tasks[t].vid].res IN
       IF validation.isValid
       THEN /\ tasks' = [tasks EXCEPT
                   ![t] = Done(@, validation.session)]
            /\ UNCHANGED <<slotVars, refreshes>>
       ELSE \E rid \in 1..(Len(refreshes) + 1), own \in BOOLEAN :
              /\ refreshSession(rid, own)
              /\ tasks' = [tasks EXCEPT
                     ![t] = [@ EXCEPT !.pc = "ensure_awaitR", !.rid = rid,
                                      !.own = own]]
    /\ UNCHANGED <<clockVars, faults, outerVars, provVars, storeVars, cacheVars, ctxVars,
                   sessionChangeListeners, validations, calls, events>>

\* "await this.refreshSession()" settles; without a session clearAuthState
\* is called, which calls supabase.auth.signOut()
EnsureAfterRefresh(t) ==
    /\ tasks[t].pc = "ensure_awaitR"
    /\ refreshes[tasks[t].rid].pc = "done"
    /\ refreshSessionFinally(tasks[t].own)
    /\ LET refreshed == refreshes[tasks[t].rid].res IN
       tasks' = [tasks EXCEPT
           ![t] = IF refreshed # NoSession
                  THEN Done(@, refreshed)
                  ELSE [@ EXCEPT !.pc = "cas_signOut", !.signedOut = TRUE,
                                 !.ret = <<"done">>, !.res = NoSession]]
    /\ UNCHANGED <<clockVars, faults, outerVars, provVars, storeVars, cacheVars, ctxVars,
                   sessionChangeListeners, validations, refreshes, calls, events>>

\* invalidateCache()
CallInvalidateCache ==
    /\ WithinBudget
    /\ sessionValidationPromise # 0
    /\ InvalidateCache
    /\ calls' = calls + 1
    /\ UNCHANGED <<clockVars, faults, outerVars, provVars, storeVars, slotVars, ctxVars,
                   sessionChangeListeners, validations, refreshes, tasks, events>>

(***************************************************************************)
(* clearAuthState                                                          *)
(***************************************************************************)
\* supabase.auth.signOut() answers (or throws, which is caught); the rest
\* of clearAuthState runs
CAS_SignOutReturns(t) ==
    /\ tasks[t].pc = "cas_signOut"
    /\ \E answered \in BOOLEAN :
         provSession' = IF answered THEN NoSession ELSE provSession
    /\ storage' = RemoveAuthKeys(storage)
    /\ InvalidateCache
    /\ isRefreshing' = FALSE
    /\ refreshPromise' = 0
    /\ tasks' = [tasks EXCEPT ![t] = Return(@)]
    /\ UNCHANGED <<clockVars, faults, outerVars, nextCred, provEvents, smContext, ctxVars,
                   sessionChangeListeners, validations, refreshes, calls, events>>

(***************************************************************************)
(* clearSessionComplete and performComprehensiveCleanup                    *)
(***************************************************************************)
\* clearSessionComplete() up to its first await, the health check of
\* performComprehensiveCleanup; rec.ret holds where its caller resumes
clearSessionComplete(t, rec) ==
    IF isCleanupInProgress
    THEN /\ tasks' = [tasks EXCEPT ![t] = Return(rec)]
         /\ UNCHANGED <<ctxVars, storeVars>>
    ELSE /\ isCleanupInProgress' = TRUE
         /\ currentContext' = NoContext
         /\ smContext' = NoContext
            \* performComprehensiveCleanup reads this.currentContext, which
            \* is null by now
         /\ storage' = ComprehensiveCleanupOfStorage(storage, currentContext')
         /\ tasks' = [tasks EXCEPT
                ![t] = [rec EXCEPT !.prev = currentContext, !.pc = "pcc_health"]]

\* the explicit sign-out: clearSessionComplete() called from outside
CallSignOut(t) ==
    /\ Idle(t)
    /\ WithinBudget
    /\ clearSessionComplete(t, [IdleTask EXCEPT !.op = "clearSessionComplete",
                                                !.ctx0 = currentContext,
                                                !.ret = <<"done">>])
    /\ calls' = calls + 1
    /\ UNCHANGED <<clockVars, faults, outerVars, provVars, cacheVars, slotVars,
                   sessionChangeListeners, validations, refreshes, events>>

LogoutEvent(rec) == SessionChangeEvent("logout", rec.prev, NoContext, TRUE)

\* performHealthCheck({autoFix: true}) answers: clearAuthState is called;
\* or it throws: the catch block skips clearAuthState
PCC_HealthReturns(t) ==
    /\ tasks[t].pc = "pcc_health"
    /\ \/ /\ tasks' = [tasks EXCEPT
                 ![t] = [@ EXCEPT !.pc = "cas_signOut", !.signedOut = TRUE,
                                  !.ret = <<"pcc_after">> \o @]]
          /\ UNCHANGED events
       \/ notifySessionChange(t, tasks[t], LogoutEvent(tasks[t]), "csc_finally")
    /\ UNCHANGED <<clockVars, faults, outerVars, provVars, storeVars, cacheVars, slotVars,
                   ctxVars, sessionChangeListeners, validations, refreshes, calls>>

\* performComprehensiveCleanup returned: the logout event is published
PCC_After(t) ==
    /\ tasks[t].pc = "pcc_after"
    /\ notifySessionChange(t, tasks[t], LogoutEvent(tasks[t]), "csc_finally")
    /\ UNCHANGED <<clockVars, faults, outerVars, provVars, storeVars, cacheVars, slotVars,
                   ctxVars, sessionChangeListeners, validations, refreshes, calls>>

\* the finally block of clearSessionComplete
CSC_Finally(t) ==
    /\ tasks[t].pc = "csc_finally"
    /\ isCleanupInProgress' = FALSE
    /\ tasks' = [tasks EXCEPT ![t] = Return(@)]
    /\ UNCHANGED <<clockVars, faults, outerVars, provVars, storeVars, cacheVars, slotVars,
                   currentContext, sessionChangeListeners, validations, refreshes,
                   calls, events>>

(***************************************************************************)
(* setSessionContext, the auth state listener, initializeSession           *)
(***************************************************************************)
ContextEventType_AlwaysUserChange(prev) == "user_change"

\* "type: previousContext ? 'user_change' : 'login'" of setSessionContext
ContextEventType(prev) == IF prev # NoContext THEN "user_change" ELSE "login"

\* setSessionContext(ctx) up to the await of its notification, on the
\* storage store (what the caller's purge left)
setSessionContext(t, rec, ctx, store, cont) ==
    /\ currentContext' = ctx
    /\ smContext' = [user_id |-> ctx.user_id, tenant_id |-> ctx.tenant_id,
                     email |-> ctx.email]
    /\ storage' = SM_set(store, SessionMetadataKind, ctx)
    /\ notifySessionChange(t, rec,
           SessionChangeEvent(ContextEventType(currentContext),
                              currentContext, ctx, FALSE),
           cont)

\* the user signs in at the provider (signInWithPassword, another tab)
ProviderSignIn ==
    /\ WithinBudget
    /\ \E u \in Users, tn \in Tenants :
         LET s == IssuedSession(u, tn, nextCred, now + SessionLife) IN
         /\ provSession' = s
         /\ provEvents' = Append(provEvents, [event |-> "SIGNED_IN", session |-> s])
    /\ nextCred' = nextCred + 1
    /\ storage' = storage \cup {SbAuthKey}
    /\ calls' = calls + 1
    /\ UNCHANGED <<clockVars, faults, outerVars, smContext, cacheVars, slotVars, ctxVars,
                   sessionChangeListeners, validations, refreshes, tasks, events>>

\* the user signs out at the provider (supabase.auth.signOut() of the UI)
ProviderSignOut ==
    /\ WithinBudget
    /\ provSession # NoSession
    /\ provSession' = NoSession
    /\ provEvents' = Append(provEvents, [event |-> "SIGNED_OUT", session |-> NoSession])
    /\ storage' = storage \ {SbAuthKey}
    /\ calls' = calls + 1
    /\ UNCHANGED <<clockVars, faults, outerVars, nextCred, smContext, cacheVars, slotVars,
                   ctxVars, sessionChangeListeners, validations, refreshes, tasks,
                   events>>

\* the callback of supabase.auth.onAuthStateChange
OnAuthStateChange(t) ==
    /\ Idle(t)
    /\ provEvents # <<>>
    /\ provEvents' = Tail(provEvents)
    /\ LET e == Head(provEvents)
           rec == [IdleTask EXCEPT !.op = e.event, !.ctx0 = currentContext,
                                   !.ret = <<"done">>] IN
       IF e.event = "SIGNED_IN"
       THEN /\ setSessionContext(t, [rec EXCEPT !.ret = <<>>],
                                 createSessionContext(e.session, now), storage, "done")
            /\ UNCHANGED isCleanupInProgress
       ELSE /\ clearSessionComplete(t, rec)
            /\ UNCHANGED events
    /\ UNCHANGED <<clockVars, faults, outerVars, provSession, nextCred, cacheVars, slotVars,
                   sessionChangeListeners, validations, refreshes, calls>>

\* the count of detectSessionCorruption: keys that include SESSION_METADATA
SessionMetadataKeys == {k \in storage : k.kind = SessionMetadataKind}

UserMismatch_ContextNotCompared == FALSE

\* check 2 of detectSessionCorruption, on the session getSession() answered
UserMismatch ==
    /\ provSession # NoSession
    /\ currentContext # NoContext
    /\ provSession.user # currentContext.user_id

\* healthReport.overall_health of storageHealthChecker.performHealthCheck()
HealthReports == {"healthy", "critical", "corrupted"}

\* performEmergencyCleanup() up to the signOut of clearAuthState
performEmergencyCleanup(t, rec) ==
    /\ storage' = SM_clearAll(storage)
    /\ tasks' = [tasks EXCEPT
           ![t] = [rec EXCEPT !.pc = "cas_signOut", !.signedOut = TRUE,
                              !.wiped = TRUE,
                              !.res = NoContext, !.ret = <<"em_afterCAS", "done">>]]
    /\ UNCHANGED <<smContext, ctxVars, events>>

\* initializeSession() up to the first await of detectSessionCorruption
CallInitialize(t) ==
    /\ Idle(t)
    /\ WithinBudget
    /\ LET rec == [IdleTask EXCEPT !.op = "initializeSession",
                                   !.ctx0 = currentContext,
                                   !.prov0 = provSession.user] IN
       IF Cardinality(SessionMetadataKeys) > 3
       THEN performEmergencyCleanup(t, [rec EXCEPT !.detected = TRUE])
       ELSE /\ tasks' = [tasks EXCEPT ![t] = [rec EXCEPT !.pc = "det_getSession"]]
            /\ UNCHANGED <<storeVars, ctxVars, events>>
    /\ calls' = calls + 1
    /\ UNCHANGED <<clockVars, faults, outerVars, provVars, cacheVars, slotVars,
                   sessionChangeListeners, validations, refreshes>>

\* getSession() of detectSessionCorruption answers
DetectGetSessionReturns(t) ==
    /\ tasks[t].pc = "det_getSession"
    /\ \/ \* it throws: "assume corruption if we can't check"
          performEmergencyCleanup(t, [tasks[t] EXCEPT !.detected = TRUE])
       \/ IF UserMismatch
          THEN performEmergencyCleanup(t, [tasks[t] EXCEPT !.detected = TRUE])
          ELSE /\ tasks' = [tasks EXCEPT ![t] = [@ EXCEPT !.pc = "det_health"]]
               /\ UNCHANGED <<storeVars, ctxVars, events>>
    /\ UNCHANGED <<clockVars, faults, outerVars, provVars, cacheVars, slotVars,
                   sessionChangeListeners, validations, refreshes, calls>>

\* performHealthCheck() of detectSessionCorruption answers
DetectHealthReturns(t) ==
    /\ tasks[t].pc = "det_health"
    /\ \/ \* performHealthCheck throws
          performEmergencyCleanup(t, [tasks[t] EXCEPT !.detected = TRUE])
       \/ \E report \in HealthReports :
            IF report \in {"critical", "corrupted"}
            THEN performEmergencyCleanup(t, [tasks[t] EXCEPT !.detected = TRUE])
            ELSE \* initializeSession calls getSession()
                 /\ tasks' = [tasks EXCEPT ![t] = [@ EXCEPT !.pc = "init_getSession"]]
                 /\ UNCHANGED <<storeVars, ctxVars, events>>
    /\ UNCHANGED <<clockVars, faults, outerVars, provVars, cacheVars, slotVars,
                   sessionChangeListeners, validations, refreshes, calls>>

\* getSession() of initializeSession answers
InitGetSessionReturns(t) ==
    /\ tasks[t].pc = "init_getSession"
    /\ \/ \* it throws: the catch block
          performEmergencyCleanup(t, tasks[t])
       \/ /\ provSession = NoSession
          /\ clearSessionComplete(t, [tasks[t] EXCEPT !.res = NoContext,
                                                      !.ret = <<"done">>])
          /\ UNCHANGED events
       \/ /\ provSession # NoSession
          /\ LET newContext == createSessionContext(provSession, now)
                 previousContext == currentContext
                 rec == [tasks[t] EXCEPT !.prev = previousContext,
                                         !.newc = newContext, !.ret = <<"done">>] IN
             IF /\ previousContext # NoContext
                /\ previousContext.user_id # newContext.user_id
             THEN \* handleUserChange
                  setSessionContext(t, rec, newContext,
                      performUserSpecificCleanup(storage, previousContext),
                      "huc_after")
             ELSE IF /\ previousContext # NoContext
                     /\ previousContext.tenant_id # newContext.tenant_id
             THEN \* handleTenantChange
                  setSessionContext(t, rec, newContext,
                      performTenantSpecificCleanup(storage, previousContext),
                      "htc_after")
             ELSE setSessionContext(t, rec, newContext, storage, "init_ret")
          /\ UNCHANGED isCleanupInProgress
    /\ UNCHANGED <<clockVars, faults, outerVars, provVars, cacheVars, slotVars,
                   sessionChangeListeners, validations, refreshes, calls>>

\* handleUserChange after setSessionContext: its own user_change event
Huc_After(t) ==
    /\ tasks[t].pc = "huc_after"
    /\ notifySessionChange(t, tasks[t],
           SessionChangeEvent("user_change", tasks[t].prev, tasks[t].newc, TRUE),
           "init_ret")
    /\ UNCHANGED <<clockVars, faults, outerVars, provVars, storeVars, cacheVars, slotVars,
                   ctxVars, sessionChangeListeners, validations, refreshes, calls>>

\* handleTenantChange after setSessionContext: the tenant_change event
Htc_After(t) ==
    /\ tasks[t].pc = "htc_after"
    /\ notifySessionChange(t, tasks[t],
           SessionChangeEvent("tenant_change", tasks[t].prev, tasks[t].newc, TRUE),
           "init_ret")
    /\ UNCHANGED <<clockVars, faults, outerVars, provVars, storeVars, cacheVars, slotVars,
                   ctxVars, sessionChangeListeners, validations, refreshes, calls>>

\* "return this.currentContext" of initializeSession
Init_Ret(t) ==
    /\ tasks[t].pc = "init_ret"
    /\ tasks' = [tasks EXCEPT ![t] = Return([@ EXCEPT !.res = currentContext])]
    /\ UNCHANGED <<clockVars, faults, outerVars, provVars, storeVars, cacheVars, slotVars,
                   ctxVars, sessionChangeListeners, validations, refreshes, calls,
                   events>>

\* performEmergencyCleanup after clearAuthState: the cleanup event
Em_AfterCAS(t) ==
    /\ tasks[t].pc = "em_afterCAS"
    /\ notifySessionChange(t, tasks[t],
           SessionChangeEvent("cleanup", currentContext, NoContext, TRUE),
           "em_afterNotify")
    /\ UNCHANGED <<clockVars, faults, outerVars, provVars, storeVars, cacheVars, slotVars,
                   ctxVars, sessionChangeListeners, validations, refreshes, calls>>

Em_AfterNotify_KeepsContext(t) ==
    /\ tasks[t].pc = "em_afterNotify"
    /\ tasks' = [tasks EXCEPT ![t] = Return(@)]
    /\ UNCHANGED <<clockVars, faults, outerVars, provVars, storeVars, cacheVars, slotVars,
                   ctxVars, sessionChangeListeners, validations, refreshes, calls,
                   events>>

\* performEmergencyCleanup after its notification: the context is dropped
Em_AfterNotify(t) ==
    /\ tasks[t].pc = "em_afterNotify"
    /\ currentContext' = NoContext
    /\ tasks' = [tasks EXCEPT ![t] = Return(@)]
    /\ UNCHANGED <<clockVars, faults, outerVars, provVars, storeVars, cacheVars, slotVars,
                   isCleanupInProgress, sessionChangeListeners, validations,
                   refreshes, calls, events>>

(***************************************************************************)
(* Activity tracking and the session monitor                               *)
(***************************************************************************)
\* the time that passes between two steps of a session that is left idle
IdleSteps == {1, SESSION_TIMEOUT, SESSION_TIMEOUT + 1}

IdleTick ==
    /\ ticks < MaxTicks
    /\ WithinBudget
    /\ \E d \in IdleSteps : now' = now + d
    /\ ticks' = ticks + 1
    /\ UNCHANGED <<faults, outerVars, provVars, storeVars, cacheVars, slotVars,
                   ctxVars, sessionChangeListeners, validations, refreshes, tasks,
                   calls, events>>

TouchActivity_RestartsSession(ctx, t) ==
    [ctx EXCEPT !.last_activity = t, !.login_timestamp = t]

\* "this.currentContext.last_activity = Date.now()"
TouchActivity(ctx, t) == [ctx EXCEPT !.last_activity = t]

\* updateActivity(): it has no await and returns in the step it is called
updateActivity(t) ==
    /\ Idle(t)
    /\ WithinBudget
    /\ currentContext' = IF currentContext # NoContext
                         THEN TouchActivity(currentContext, now)
                         ELSE currentContext
    /\ calls' = calls + 1
    /\ tasks' = [tasks EXCEPT
           ![t] = Done([IdleTask EXCEPT !.op = "updateActivity",
                                        !.ctx0 = currentContext,
                                        !.seq = calls'], NoResult)]
    /\ UNCHANGED <<clockVars, faults, outerVars, provVars, storeVars, cacheVars,
                   slotVars, isCleanupInProgress, sessionChangeListeners,
                   validations, refreshes, events>>

\* the test of the session monitor on the live context
SessionTimedOut ==
    /\ currentContext # NoContext
    /\ now - currentContext.last_activity > SESSION_TIMEOUT

\* the callback of the interval that initializeSessionMonitoring sets, which
\* fires once ACTIVITY_CHECK_INTERVAL has passed, up to its first await
SessionMonitorFires(t) ==
    /\ Idle(t)
    /\ WithinBudget
    /\ now >= ACTIVITY_CHECK_INTERVAL
    /\ calls' = calls + 1
    /\ LET rec == [IdleTask EXCEPT !.op = "sessionMonitor",
                                   !.ctx0 = currentContext,
                                   !.expired = SessionTimedOut,
                                   !.seq = calls',
                                   !.ret = <<"done">>] IN
       IF SessionTimedOut
       THEN clearSessionComplete(t, rec)
       ELSE /\ tasks' = [tasks EXCEPT ![t] = Done(rec, NoResult)]
            /\ UNCHANGED <<ctxVars, storeVars>>
    /\ UNCHANGED <<clockVars, faults, outerVars, provVars, cacheVars, slotVars,
                   sessionChangeListeners, validations, refreshes, events>>

(***************************************************************************)
(* The auth provider component: signOut and initAuth of AuthContext        *)
(***************************************************************************)
SignedOutState_StillAuthenticated == [user |-> Undefined, isAuthenticated |-> TRUE]

\* "setUser(null); setIsAuthenticated(false)"
SignedOutState == [user |-> Undefined, isAuthenticated |-> FALSE]

\* signOut() of the component up to "await supabase.auth.signOut()": the
\* logout flag is set, localStorage is cleared and the provider's signOut is
\* called; or one of the clearing calls throws, before or after localStorage
\* was emptied, and the catch block runs
AuthSignOut(t) ==
    /\ Idle(t)
    /\ WithinBudget
    /\ isLoggingOut' = TRUE
    /\ LET rec == [IdleTask EXCEPT !.op = "AuthContext.signOut",
                                   !.ctx0 = currentContext] IN
       \/ /\ storage' = {}
          /\ tasks' = [tasks EXCEPT
                 ![t] = [rec EXCEPT !.pc = "aso_signOut", !.wiped = TRUE,
                                    !.signedOut = TRUE]]
          /\ UNCHANGED <<user, isAuthenticated>>
       \/ /\ \E cleared \in BOOLEAN :
               /\ storage' = IF cleared THEN {} ELSE storage
               /\ tasks' = [tasks EXCEPT
                      ![t] = [rec EXCEPT !.pc = "aso_timer", !.wiped = cleared]]
          /\ user' = SignedOutState.user
          /\ isAuthenticated' = SignedOutState.isAuthenticated
    /\ calls' = calls + 1
    /\ UNCHANGED <<clockVars, faults, rsIn, rsOut, authEvents, provVars, smContext,
                   cacheVars, slotVars, ctxVars, sessionChangeListeners,
                   validations, refreshes, events>>

\* supabase.auth.signOut() of the component answers: the session is gone
\* and SIGNED_OUT is sent to the subscribers, or it answers an error; or it
\* throws and the catch block clears localStorage again.  Either way the
\* states are reset and the timer that resets the flag is set
ASO_SignOutReturns(t) ==
    /\ tasks[t].pc = "aso_signOut"
    /\ \/ /\ provSession' = NoSession
          /\ provEvents' = Append(provEvents, [event |-> "SIGNED_OUT",
                                               session |-> NoSession])
          /\ authEvents' = Append(authEvents, [event |-> "SIGNED_OUT",
                                               session |-> NoSession])
          /\ storage' = storage \ {SbAuthKey}
       \/ UNCHANGED <<provSession, provEvents, authEvents, storage>>
       \/ /\ storage' = {}
          /\ UNCHANGED <<provSession, provEvents, authEvents>>
    /\ user' = SignedOutState.user
    /\ isAuthenticated' = SignedOutState.isAuthenticated
    /\ tasks' = [tasks EXCEPT ![t] = [@ EXCEPT !.pc = "aso_timer"]]
    /\ UNCHANGED <<clockVars, faults, rsIn, rsOut, isLoggingOut, nextCred, smContext,
                   cacheVars, slotVars, ctxVars, sessionChangeListeners,
                   validations, refreshes, calls, events>>

\* the callback of "setTimeout(..., 100)": the flag is reset and the page
\* is sent to /login
ASO_TimerFires(t) ==
    /\ tasks[t].pc = "aso_timer"
    /\ isLoggingOut' = FALSE
    /\ tasks' = [tasks EXCEPT ![t] = Done(@, NoResult)]
    /\ UNCHANGED <<clockVars, faults, rsIn, rsOut, user, isAuthenticated, authEvents,
                   provVars, storeVars, cacheVars, slotVars, ctxVars,
                   sessionChangeListeners, validations, refreshes, calls, events>>

\* signIn(email, password) of the component up to
\* "await supabase.auth.signInWithPassword(...)"
AuthSignIn(t) ==
    /\ Idle(t)
    /\ WithinBudget
    /\ tasks' = [tasks EXCEPT
           ![t] = [IdleTask EXCEPT !.op = "AuthContext.signIn",
                                   !.ctx0 = currentContext,
                                   !.pc = "asi_signIn"]]
    /\ calls' = calls + 1
    /\ UNCHANGED <<clockVars, faults, outerVars, provVars, storeVars, cacheVars,
                   slotVars, ctxVars, sessionChangeListeners, validations,
                   refreshes, events>>

\* signInWithPassword answers an error (or throws), or a session: SIGNED_IN
\* is sent to the subscribers and the user of the session is set
ASI_SignInReturns(t) ==
    /\ tasks[t].pc = "asi_signIn"
    /\ \/ /\ tasks' = [tasks EXCEPT ![t] = Done(@, NoSession)]
          /\ UNCHANGED <<provVars, storage, user, isAuthenticated, authEvents>>
       \/ \E u \in Users :
            LET s == IssuedSession(u, "tenant-a", nextCred, now + SessionLife) IN
            /\ provSession' = s
            /\ provEvents' = Append(provEvents, [event |-> "SIGNED_IN", session |-> s])
            /\ authEvents' = Append(authEvents, [event |-> "SIGNED_IN", session |-> s])
            /\ nextCred' = nextCred + 1
            /\ storage' = storage \cup {SbAuthKey}
            /\ user' = u
            /\ isAuthenticated' = TRUE
            /\ tasks' = [tasks EXCEPT ![t] = Done(@, s)]
    /\ UNCHANGED <<clockVars, faults, rsIn, rsOut, isLoggingOut, smContext, cacheVars,
                   slotVars, ctxVars, sessionChangeListeners, validations,
                   refreshes, calls, events>>

\* the callback the component gives supabase.auth.onAuthStateChange
AuthOnAuthStateChange ==
    /\ authEvents # <<>>
    /\ authEvents' = Tail(authEvents)
    /\ LET session == Head(authEvents).session IN
       IF session # NoSession
       THEN user' = session.user /\ isAuthenticated' = TRUE
       ELSE user' = Undefined /\ isAuthenticated' = FALSE
    /\ UNCHANGED <<clockVars, faults, rsIn, rsOut, isLoggingOut, provVars, storeVars,
                   cacheVars, slotVars, ctxVars, sessionChangeListeners,
                   validations, refreshes, tasks, calls, events>>

\* initAuth() of the component up to "await supabase.auth.getSession()"
InitAuth(t) ==
    /\ Idle(t)
    /\ WithinBudget
    /\ LET rec == [IdleTask EXCEPT !.op = "initAuth", !.ctx0 = currentContext] IN
       tasks' = [tasks EXCEPT
           ![t] = IF isLoggingOut
                  THEN Done(rec, NoSession)
                  ELSE [rec EXCEPT !.pc = "ia_getSession"]]
    /\ calls' = calls + 1
    /\ UNCHANGED <<clockVars, faults, outerVars, provVars, storeVars, cacheVars,
                   slotVars, ctxVars, sessionChangeListeners, validations,
                   refreshes, events>>

\* getSession() of initAuth answers: the user of the session is set, or
\* without a session and with the flag down sessionRecovery.tryRecover() is
\* called; or getSession() throws
IA_GetSessionReturns(t) ==
    /\ tasks[t].pc = "ia_getSession"
    /\ \/ /\ tasks' = [tasks EXCEPT ![t] = Done(@, NoSession)]
          /\ UNCHANGED <<user, isAuthenticated>>
       \/ /\ provSession # NoSession
          /\ user' = provSession.user
          /\ isAuthenticated' = TRUE
          /\ tasks' = [tasks EXCEPT ![t] = Done(@, provSession)]
       \/ /\ provSession = NoSession
          /\ tasks' = [tasks EXCEPT
                 ![t] = IF ~isLoggingOut THEN [@ EXCEPT !.pc = "ia_recover"]
                        ELSE Done(@, NoSession)]
          /\ UNCHANGED <<user, isAuthenticated>>
    /\ UNCHANGED <<clockVars, faults, rsIn, rsOut, isLoggingOut, authEvents, provVars,
                   storeVars, cacheVars, slotVars, ctxVars, sessionChangeListeners,
                   validations, refreshes, calls, events>>

\* the user sessionRecovery.tryRecover() may give back
RecoveredUser == [user |-> "u1"]

\* tryRecover() of initAuth answers with a recovered session or with none
IA_RecoverReturns(t) ==
    /\ tasks[t].pc = "ia_recover"
    /\ \E recovered \in {NoSession, RecoveredUser} :
         /\ tasks' = [tasks EXCEPT ![t] = Done(@, recovered)]
         /\ IF recovered # NoSession
            THEN user' = recovered.user /\ isAuthenticated' = TRUE
            ELSE UNCHANGED <<user, isAuthenticated>>
    /\ UNCHANGED <<clockVars, faults, rsIn, rsOut, isLoggingOut, authEvents, provVars,
                   storeVars, cacheVars, slotVars, ctxVars, sessionChangeListeners,
                   validations, refreshes, calls, events>>

\* what the application keeps under a context: the three tenant caches and
\* a user-level record
AppData(ctx) == {ScopedKey(kind, ctx) : kind \in TenantCacheKinds \cup UserLevelKinds}

\* the application loads its data and stores it under the context of
\* storageManager
AppWrite ==
    /\ smContext # NoContext
    /\ ~(AppData(smContext) \subseteq storage)
    /\ storage' = storage \cup AppData(smContext)
    /\ UNCHANGED <<clockVars, faults, outerVars, provVars, smContext, cacheVars,
                   slotVars, ctxVars, sessionChangeListeners, validations, refreshes,
                   tasks, calls, events>>

(***************************************************************************)
(* Specifications                                                          *)
(***************************************************************************)
\* a call starts one validation at most and two refreshes at most
ValidationIds == 1..MaxCalls
RefreshIds == 1..(2 * MaxCalls)

InitCommon ==
    /\ InitManager
    /\ now = 0
    /\ ticks = 0
    /\ rsIn = NoSession
    /\ rsOut = NoContext
    /\ nextCred = 2
    /\ isLoggingOut = FALSE
    /\ user = Undefined
    /\ isAuthenticated = FALSE
    /\ authEvents = <<>>

\* the validator and the refresh coordinator under concurrent callers
InitValidation ==
    /\ InitCommon
    /\ provSession \in InitialSessions
    /\ storage = IF provSession = NoSession THEN {} ELSE {SbAuthKey}

NextValidation ==
    \/ Tick
    \/ CallInvalidateCache
    \/ \E t \in TaskIds :
         \/ CallValidate(t) \/ ValidateReturns(t)
         \/ CallRefresh(t) \/ RefreshReturns(t)
         \/ CallEnsure(t) \/ EnsureAfterValidation(t) \/ EnsureAfterRefresh(t)
         \/ CAS_SignOutReturns(t)
    \/ \E v \in ValidationIds :
         \/ V_GetSessionReturns(v) \/ V_GetUserReturns(v)
         \/ V_RefreshReturns(v) \/ V_BackoffDone(v)
    \/ \E r \in RefreshIds :
         \/ R_PrimaryReturns(r) \/ R_PersistReturns(r)
         \/ R_FallbackReturns(r) \/ R_Persist2Returns(r)

SpecValidation == InitValidation /\ [][NextValidation]_vars

\* the session-metadata records setSessionContext has written for every
\* user and tenant that signed in on this browser
StaleSessionRecords ==
    { ScopedKey(SessionMetadataKind, [user_id |-> u, tenant_id |-> tn]) :
        u \in Users, tn \in Tenants }

\* the isolation and cleanup engine under sign-ins, sign-outs and
\* initializations
InitIsolation ==
    /\ InitCommon
    /\ provSession \in {NoSession, IssuedSession("u1", "tenant-a", 1, SessionLife)}
       \* a fresh browser, one that still holds the pre-migration keys, or
       \* one that holds the session records of earlier sign-ins
    /\ \E old \in {{}, {LegacyKey(kind) : kind \in LegacyKinds}, StaleSessionRecords} :
         storage = old \cup (IF provSession = NoSession THEN {} ELSE {SbAuthKey})

NextIsolation ==
    \/ ProviderSignIn
    \/ ProviderSignOut
    \/ AppWrite
    \/ \E t \in TaskIds :
         \/ OnAuthStateChange(t)
         \/ CallInitialize(t)
         \/ DetectGetSessionReturns(t) \/ DetectHealthReturns(t)
         \/ InitGetSessionReturns(t)
         \/ Huc_After(t) \/ Htc_After(t) \/ Init_Ret(t)
         \/ Em_AfterCAS(t) \/ Em_AfterNotify(t)
         \/ CallSignOut(t)
         \/ PCC_HealthReturns(t) \/ PCC_After(t) \/ CSC_Finally(t)
         \/ CAS_SignOutReturns(t)
         \/ NotifyReturns(t)

SpecIsolation == InitIsolation /\ [][NextIsolation]_vars

\* a signed-in session that is used, left idle and initialized again
InitActivity ==
    /\ InitCommon
    /\ provSession = IssuedSession("u1", "tenant-a", 1, SessionLife)
    /\ storage = {SbAuthKey}

NextActivity ==
    \/ IdleTick
    \/ ProviderSignIn
    \/ \E t \in TaskIds :
         \/ OnAuthStateChange(t)
         \/ updateActivity(t)
         \/ SessionMonitorFires(t)
         \/ CallInitialize(t)
         \/ DetectGetSessionReturns(t) \/ DetectHealthReturns(t)
         \/ InitGetSessionReturns(t)
         \/ Huc_After(t) \/ Htc_After(t) \/ Init_Ret(t)
         \/ Em_AfterCAS(t) \/ Em_AfterNotify(t)
         \/ PCC_HealthReturns(t) \/ PCC_After(t) \/ CSC_Finally(t)
         \/ CAS_SignOutReturns(t)
         \/ NotifyReturns(t)

SpecActivity == InitActivity /\ [][NextActivity]_vars

\* the page of a signed-in user whose auth provider component signs out
\* while the component and the manager are initialized
InitLogout ==
    /\ InitCommon
    /\ provSession = IssuedSession("u1", "tenant-a", 1, SessionLife)
    /\ storage = {SbAuthKey}

NextLogout ==
    \/ AuthOnAuthStateChange
    \/ \E t \in TaskIds :
         \/ AuthSignOut(t) \/ ASO_SignOutReturns(t) \/ ASO_TimerFires(t)
         \/ InitAuth(t) \/ IA_GetSessionReturns(t) \/ IA_RecoverReturns(t)
         \/ OnAuthStateChange(t)
         \/ CallInitialize(t)
         \/ DetectGetSessionReturns(t) \/ DetectHealthReturns(t)
         \/ InitGetSessionReturns(t) \/ Init_Ret(t)
         \/ Em_AfterCAS(t) \/ Em_AfterNotify(t)
         \/ PCC_HealthReturns(t) \/ PCC_After(t) \/ CSC_Finally(t)
         \/ CAS_SignOutReturns(t)
         \/ NotifyReturns(t)

SpecLogout == InitLogout /\ [][NextLogout]_vars

\* the auth provider component on its own: sign-ins, sign-outs and
\* initializations of a page whose provider may hold a session
InitAuthProvider ==
    /\ InitCommon
    /\ provSession \in InitialSessions
    /\ storage = IF provSession = NoSession THEN {} ELSE {SbAuthKey}

NextAuthProvider ==
    \/ AuthOnAuthStateChange
    \/ \E t \in TaskIds :
         \/ AuthSignOut(t) \/ ASO_SignOutReturns(t) \/ ASO_TimerFires(t)
         \/ AuthSignIn(t) \/ ASI_SignInReturns(t)
         \/ InitAuth(t) \/ IA_GetSessionReturns(t) \/ IA_RecoverReturns(t)

SpecAuthProvider == InitAuthProvider /\ [][NextAuthProvider]_vars

\* the component when the provider answers every signOut() and every timer
\* that was set fires
SpecAuthProviderFair ==
    /\ SpecAuthProvider
    /\ WF_vars(\E t \in TaskIds : ASO_SignOutReturns(t))
    /\ WF_vars(\E t \in TaskIds : ASO_TimerFires(t))

\* the validator of a signed-in page on which users sign in
InitIdentity ==
    /\ InitCommon
    /\ provSession = IssuedSession("u1", "tenant-a", 1, SessionLife)
    /\ storage = {SbAuthKey}

NextIdentity ==
    \/ ProviderSignIn
    \/ \E t \in TaskIds :
         \/ OnAuthStateChange(t)
         \/ NotifyReturns(t)
         \/ CallValidate(t) \/ ValidateReturns(t)
    \/ \E v \in ValidationIds :
         \/ V_GetSessionReturns(v) \/ V_GetUserReturns(v)
         \/ V_RefreshReturns(v) \/ V_BackoffDone(v)
    \/ \E r \in RefreshIds :
         \/ R_PrimaryReturns(r) \/ R_PersistReturns(r)
         \/ R_FallbackReturns(r) \/ R_Persist2Returns(r)

SpecIdentity == InitIdentity /\ [][NextIdentity]_vars

\* the notification bus under sign-ins and sign-outs, with listeners that
\* are registered and removed while events are published
InitNotify ==
    /\ InitCommon
    /\ provSession = NoSession
    /\ storage = {}

NextNotify ==
    \/ ProviderSignIn
    \/ ProviderSignOut
    \/ \E l \in Listeners :
         \/ addSessionChangeListener(l)
         \/ removeSessionChangeListener(l)
    \/ \E t \in TaskIds :
         \/ OnAuthStateChange(t)
         \/ CallSignOut(t)
         \/ PCC_HealthReturns(t) \/ PCC_After(t) \/ CSC_Finally(t)
         \/ CAS_SignOutReturns(t)
         \/ ListenerDone(t)
         \/ NotifyReturns(t)

SpecNotify == InitNotify /\ [][NextNotify]_vars

\* the resolver on its own: createSessionContext applied to every session
InitResolve ==
    /\ InitManager
    /\ now = 0
    /\ ticks = 0
    /\ nextCred = 2
    /\ provSession = NoSession
    /\ storage = {}
    /\ rsIn \in ResolverInputs
    /\ rsOut = NoContext
    /\ isLoggingOut = FALSE
    /\ user = Undefined
    /\ isAuthenticated = FALSE
    /\ authEvents = <<>>

Resolve ==
    /\ rsOut = NoContext
    /\ rsOut' = createSessionContext(rsIn, now)
    /\ UNCHANGED <<clockVars, faults, rsIn, isLoggingOut, user, isAuthenticated,
                   authEvents, provVars, storeVars, cacheVars, slotVars, ctxVars,
                   sessionChangeListeners, validations, refreshes, tasks, calls,
                   events>>

ResolveTick ==
    /\ rsOut = NoContext
    /\ now < MaxTime
    /\ now' = now + 1
    /\ UNCHANGED <<ticks, faults, outerVars, provVars, storeVars, cacheVars, slotVars,
                   ctxVars, sessionChangeListeners, validations, refreshes, tasks,
                   calls, events>>

NextResolve == Resolve \/ ResolveTick

SpecResolve == InitResolve /\ [][NextResolve]_vars

(***************************************************************************)
(* The validator's cache and the refresh coordinator                       *)
(***************************************************************************)
ValidateCallers == {t \in TaskIds : tasks[t].pc = "validate_await"}
RefreshCallers == {t \in TaskIds : tasks[t].pc = "refresh_await"}

\* C1, as the code keeps it: a validation is started only when no
\* validation started within the last VALIDATION_CACHE_DURATION ms is still
\* cached (none yet, the window has passed, or the cache was invalidated
\* since), so validate() callers between two invalidations within the
\* window observe one validation; that validation probes the provider at
\* most once per attempt of its retry loop, MAX_RETRY_ATTEMPTS times at most.
C1_OneValidationPerWindow ==
    \A v \in DOMAIN validations :
        /\ validations[v].fresh
        /\ validations[v].pc # "done" =>
              /\ validations[v].probes <= validations[v].attempt
              /\ validations[v].attempt <= MAX_RETRY_ATTEMPTS
        /\ validations[v].probes <= MAX_RETRY_ATTEMPTS

\* C1 witness: two callers, the second one later than the first but within
\* the window, await the same validation, which has probed the provider
C1_CallersShareValidation ==
    /\ ValidateCallers = TaskIds
    /\ tasks[1].vid = tasks[2].vid
    /\ validations[tasks[1].vid].probes = 1
    /\ now > lastValidationTime
    /\ sessionValidationPromise = tasks[1].vid

\* C1 as stated, for two validate() callers within the window who observe
\* the one validation: the provider's probe has been invoked at most once,
\* whatever that validation does internally (retry, refresh).
C1_ProbeAtMostOnce ==
    (ValidateCallers = TaskIds /\ tasks[1].vid = tasks[2].vid)
        => validations[tasks[1].vid].probes <= 1

\* C2: concurrent refresh() calls await one refresh, which calls the
\* provider's refresh primitive with the session's own token once (the
\* retry with the stored refresh token is a second, specified call), so
\* that all of them resolve to the same credential or all to null.
C2_ConcurrentRefreshesShare ==
    \A t1, t2 \in RefreshCallers :
        (refreshes[tasks[t1].rid].pc # "done" /\ refreshes[tasks[t2].rid].pc # "done")
            => tasks[t1].rid = tasks[t2].rid

(***************************************************************************)
(* Isolation and cleanup                                                   *)
(***************************************************************************)
KeysOfUser(store, u) == {k \in store : k.user = u}
TenantCacheKeys(ctx) == {ScopedKey(kind, ctx) : kind \in TenantCacheKinds}
Published(evs, type, u1, u2) ==
    \E i \in DOMAIN evs :
        /\ evs[i].type = type
        /\ evs[i].previous_context.user_id = u1
        /\ evs[i].new_context.user_id = u2

\* task t returns from a call of op in this step
Returns(t, op) ==
    /\ tasks[t].pc # "done"
    /\ tasks'[t].pc = "done"
    /\ tasks'[t].op = op

\* C3: initializeSession() called while the context is user u1's and the
\* provider's session is another user's, u2, returns u2's context, which
\* is then the live context; no key of u1 is left in storage and a
\* user_change event from u1 to u2 has been published.
C3_UserChangePurges ==
    [][ \A t \in TaskIds :
          ( /\ Returns(t, "initializeSession")
            /\ tasks'[t].ctx0 # NoContext
            /\ tasks'[t].prov0 \in Users \ {tasks'[t].ctx0.user_id} )
          => /\ tasks'[t].res # NoContext
             /\ tasks'[t].res.user_id = tasks'[t].prov0
             /\ currentContext' = tasks'[t].res
             /\ KeysOfUser(storage', tasks'[t].ctx0.user_id) = {}
             /\ Published(events', "user_change", tasks'[t].ctx0.user_id,
                          tasks'[t].prov0)
      ]_vars

\* C4: when an explicit sign-out (clearSessionComplete) called under a live
\* context returns, storage holds no key of that context's user and no
\* legacy key, and the provider's signOut has been called.
C4_SignOutPurges ==
    [][ \A t \in TaskIds :
          ( /\ Returns(t, "clearSessionComplete")
            /\ tasks'[t].ctx0 # NoContext )
          => /\ KeysOfUser(storage', tasks'[t].ctx0.user_id) = {}
             /\ \A k \in storage' : ~IsLegacyKey(k)
             /\ tasks'[t].signedOut
      ]_vars

\* the users whose context has been live: setSessionContext publishes each
\* context it installs
OnceLive == {events[i].new_context.user_id : i \in DOMAIN events} \ {Undefined}

\* C5: whenever no operation of the manager is running, storage holds no
\* key of a user who was the live context's user and no longer is.
C5_NoKeysOfFormerUsers ==
    (\A t \in TaskIds : Free(t)) =>
        \A u \in OnceLive :
            (currentContext = NoContext \/ currentContext.user_id # u)
                => KeysOfUser(storage, u) = {}

\* C6: a step that changes the live context's tenant_id for the same user
\* is the tenant-change transition of initializeSession (the one that
\* compared the contexts, and goes on to publish tenant_change), and it
\* has removed the previous tenant's cache keys.
C6_TenantChangesByTransitionOnly ==
    [][ ( /\ currentContext # NoContext
          /\ currentContext' # NoContext
          /\ currentContext'.user_id = currentContext.user_id
          /\ currentContext'.tenant_id # currentContext.tenant_id )
        => /\ \E t \in TaskIds :
                 /\ tasks'[t].op = "initializeSession"
                 /\ tasks'[t].ret # <<>>
                 /\ Head(tasks'[t].ret) = "htc_after"
           /\ TenantCacheKeys(currentContext) \cap storage' = {}
      ]_vars

\* task t makes the tenant-change transition in this step
TenantTransition(t) ==
    /\ tasks[t].pc = "init_getSession"
    /\ tasks'[t].pc = "notify"
    /\ Head(tasks'[t].ret) = "htc_after"

\* C7, as the code keeps it: the transition from {u1, t1} to {u1, t2}
\* removes the three tenant cache keys scoped to t1 and writes the session
\* metadata record of the new context; every other key is left as it was.
C7_TenantChangeFrame ==
    [][ \A t \in TaskIds :
          TenantTransition(t) =>
              storage' = (storage \ TenantCacheKeys(currentContext))
                            \cup {ScopedKey(SessionMetadataKind, currentContext')}
      ]_vars

\* C7 witness: the transition has been made, t1's cache keys are gone and
\* the user-level record of u1 is still there
C7_ProbeSurvives ==
    \E t \in TaskIds :
        /\ tasks[t].pc = "notify"
        /\ Head(tasks[t].ret) = "htc_after"
        /\ tasks[t].prev.user_id = tasks[t].newc.user_id
        /\ tasks[t].prev.tenant_id # tasks[t].newc.tenant_id
        /\ ScopedKey("probe", tasks[t].prev) \in storage
        /\ TenantCacheKeys(tasks[t].prev) \cap storage = {}

\* C7 as stated: the transition removes t1's three cache keys and leaves
\* every other key unchanged.
C7_OnlyTenantKeysChange ==
    [][ \A t \in TaskIds :
          TenantTransition(t) =>
              storage' = storage \ TenantCacheKeys(currentContext)
      ]_vars

(***************************************************************************)
(* What the resolver is specified to compute                               *)
(***************************************************************************)
\* the tenant claim a token carries: three segments, the second one a
\* base64-encoded (either alphabet) JSON object with a tenant_id member
TokenClaim(k) ==
    IF k.form = "text" /\ k.segs = 3 /\ k.alphabet # "invalid" /\ k.text = "object"
    THEN k.claim ELSE Undefined

\* claim, else application-level metadata, else user-level metadata, else ''
OrderedFallback(s) ==
    OrElse(TokenClaim(s.token),
           OrElse(s.app_tenant, OrElse(s.user_tenant, EmptyString)))

\* a JWT as issued (base64url payload) whose payload holds a tenant claim
CarriesTenantClaim(k) ==
    /\ k.form = "text" /\ k.segs = 3 /\ k.alphabet \in {"plain", "url"}
    /\ k.text = "object" /\ k.claim \in Tenants

\* wrong number of segments, undecodable payload or non-JSON payload
Malformed(k) ==
    /\ k.form = "text"
    /\ (k.segs # 3 \/ k.alphabet = "invalid" \/ k.text = "notjson")

\* C8: createSessionContext derives tenant_id by the ordered fallback
\* token claim, application metadata, user metadata, empty string, for
\* every combination of present and absent values (stated here for the
\* tokens that are not malformed; C10 is about the malformed ones).
C8_OrderedFallback ==
    (rsOut # NoContext /\ ~Malformed(rsIn.token))
        => rsOut.tenant_id = OrderedFallback(rsIn)

\* C9: a token whose payload holds a tenant_id claim yields a context with
\* exactly that tenant_id, whatever the metadata say.
C9_ClaimTakesPriority ==
    (rsOut # NoContext /\ CarriesTenantClaim(rsIn.token))
        => rsOut.tenant_id = rsIn.token.claim

\* C10: on a malformed token the resolver returns (never throws) a
\* context whose tenant_id is the application metadata tenant, else the
\* user metadata tenant, else the empty string.
C10_MalformedFallsBack ==
    (rsOut # NoContext /\ Malformed(rsIn.token))
        => rsOut.tenant_id = MetadataTenant(rsIn)

(***************************************************************************)
(* Corruption detection and the emergency cleanup                          *)
(***************************************************************************)
\* task t starts a call of initializeSession in this step
Starts(t, op) ==
    /\ Free(t)
    /\ tasks'[t].pc \notin {"idle", "done"}
    /\ tasks'[t].op = op

\* the result of a detected corruption: null, after clearAll() and the
\* provider's signOut() have been called
WipedAndSignedOut(rec) ==
    /\ rec.res = NoContext
    /\ rec.wiped
    /\ rec.signedOut

\* C11, as the code keeps it: detectSessionCorruption samples its signals
\* one after the other.  More than 3 session-metadata keys when
\* initializeSession() starts, or the provider session's user differing
\* from the live context's user when the provider's getSession() answers,
\* or a critical/corrupted health report, make it detect corruption: in
\* that very step clearAll() empties storage, and initializeSession()
\* returns null after the provider's signOut() has been called.
C11_DetectedCorruptionWipes ==
    [][ \A t \in TaskIds :
          /\ (Starts(t, "initializeSession") /\ Cardinality(SessionMetadataKeys) > 3)
                => tasks'[t].detected
          /\ ( /\ tasks[t].pc = "det_getSession"
               /\ tasks'[t].pc # "det_getSession"
               /\ provSession # NoSession
               /\ currentContext # NoContext
               /\ provSession.user # currentContext.user_id )
                => tasks'[t].detected
          /\ (~tasks[t].detected /\ tasks'[t].detected)
                => (storage' = {} /\ tasks'[t].wiped)
          /\ (Returns(t, "initializeSession") /\ tasks'[t].detected)
                => WipedAndSignedOut(tasks'[t])
      ]_vars

\* C11 witness: initializeSession(), called under user u1's context while
\* the provider's session was another user's, has returned null after the
\* wipe and the sign-out
C11_MismatchWiped ==
    \E t \in TaskIds :
        /\ tasks[t].pc = "done"
        /\ tasks[t].op = "initializeSession"
        /\ tasks[t].ctx0 # NoContext
        /\ tasks[t].prov0 \in Users \ {tasks[t].ctx0.user_id}
        /\ tasks[t].detected
        /\ WipedAndSignedOut(tasks[t])

\* C11 as stated, for the user-id signal: if the provider session's user
\* differs from the live context's user when initializeSession() starts,
\* it returns null, clearAll() has been invoked and the provider has been
\* signed out.
C11_SignalAtStartWipes ==
    [][ \A t \in TaskIds :
          ( /\ Returns(t, "initializeSession")
            /\ tasks'[t].ctx0 # NoContext
            /\ tasks'[t].prov0 \in Users \ {tasks'[t].ctx0.user_id} )
          => WipedAndSignedOut(tasks'[t])
      ]_vars

\* C12: when initializeSession() returns after corruption was detected, an
\* event of type corruption_detected has been published.
C12_CorruptionEventPublished ==
    [][ \A t \in TaskIds :
          (Returns(t, "initializeSession") /\ tasks'[t].detected)
          => \E i \in DOMAIN events' : events'[i].type = "corruption_detected"
      ]_vars

(***************************************************************************)
(* The refresh coordinator and the retry policy                            *)
(***************************************************************************)
\* refresh r settles in this step
Settles(r) ==
    /\ refreshes[r].pc # "done"
    /\ refreshes'[r].pc = "done"

\* C13: when a refresh settles with a credential, by the primary call or
\* by the retry with the stored refresh token, the validation cache is
\* empty, so that the next validate() starts a new validation.
C13_RefreshInvalidatesCache ==
    [][ \A r \in DOMAIN refreshes :
          (Settles(r) /\ refreshes'[r].res # NoSession)
          => /\ sessionValidationPromise' = 0
             /\ lastValidationTime' = 0
      ]_vars

\* what refresh() may resolve to
IsCredential(s) == s.user \in Users

\* C14: a refresh never rejects: it settles with a credential or with null,
\* whatever the provider answers; it calls the provider's refresh twice at
\* most (the primary call and one retry with the stored refresh token), and
\* it settles with null when that retry fails.  So does every
\* refreshSession() call that awaits it.
C14_RefreshNeverThrows ==
    [][ /\ \A r \in DOMAIN refreshes' :
             /\ refreshes'[r].calls <= 2
             /\ refreshes'[r].pc = "done"
                   => (refreshes'[r].res = NoSession \/ IsCredential(refreshes'[r].res))
             /\ (r \in DOMAIN refreshes /\ refreshes[r].pc = "fallback" /\ Settles(r))
                   => refreshes'[r].res = NoSession
        /\ \A t \in TaskIds :
             Returns(t, "refreshSession")
                 => (tasks'[t].res = NoSession \/ IsCredential(tasks'[t].res))
      ]_vars

\* C14 witness: a refreshSession() call has returned null after the primary
\* refresh and the retry with the stored refresh token both failed
C14_BothRefreshesFailed ==
    /\ \E t \in TaskIds :
         /\ tasks[t].op = "refreshSession"
         /\ tasks[t].pc = "done"
         /\ tasks[t].res = NoSession
    /\ Len(refreshes) = 1
    /\ refreshes[1].pc = "done"
    /\ refreshes[1].calls = 2
    /\ refreshes[1].res = NoSession

\* the delays of the retry policy, in the order they are taken
BackoffDelays == <<1000, 2000, 4000, 8000>>

\* C15: a validation makes MAX_RETRY_ATTEMPTS (5) attempts at most; it has
\* taken one delay after each failed attempt but the 5th, the n-th delay
\* being 1000 * 2^(n-1) ms.
C15_BackoffSchedule ==
    \A v \in DOMAIN validations :
        LET r == validations[v] IN
        r.pc # "done" =>
            /\ r.attempt \in 1..5
            /\ Len(r.delays) = (IF r.pc = "backoff" THEN r.attempt ELSE r.attempt - 1)
            /\ Len(r.delays) <= 4
            /\ \A n \in DOMAIN r.delays : r.delays[n] = BackoffDelays[n]

\* C15 witness: a validation is in its 5th attempt after the four delays
C15_FifthAttempt ==
    \E v \in DOMAIN validations :
        /\ validations[v].pc = "getSession"
        /\ validations[v].attempt = 5
        /\ validations[v].delays = BackoffDelays

\* the messages of the errors the provider reports or the transport raises
ProviderErrorMessages == ErrorMessages \cup {"invalid JWT"}

\* C16: a validation that settles invalid with the message of a network or
\* provider error has made all its attempts.
C16_InvalidOnlyAfterAllAttempts ==
    [][ \A v \in DOMAIN validations :
          ( /\ validations[v].pc # "done"
            /\ validations'[v].pc = "done"
            /\ ~validations'[v].res.isValid
            /\ validations'[v].res.error \in ProviderErrorMessages )
          => validations[v].attempt = MAX_RETRY_ATTEMPTS
      ]_vars

(***************************************************************************)
(* The serialization of cleanups                                           *)
(***************************************************************************)
\* the positions inside clearSessionComplete (after its guard) and inside
\* performEmergencyCleanup
CleanupPcs == {"pcc_health", "pcc_after", "csc_finally", "em_afterCAS", "em_afterNotify"}

\* task t is between the start and the end of a cleanup
InCleanup(t) ==
    \/ tasks[t].pc \in CleanupPcs
    \/ \E i \in DOMAIN tasks[t].ret : tasks[t].ret[i] \in CleanupPcs

\* C17: a clearSessionComplete() request, explicit or from the SIGNED_OUT
\* event, does not return while a cleanup is in progress.
C17_SecondCleanupWaits ==
    [][ \A t \in TaskIds :
          (Returns(t, "clearSessionComplete") \/ Returns(t, "SIGNED_OUT"))
          => ~isCleanupInProgress'
      ]_vars

\* C18: at most one cleanup (clearSessionComplete past its guard, or
\* performEmergencyCleanup) is between its start and its end.
C18_OneCleanupAtATime ==
    Cardinality({t \in TaskIds : InCleanup(t)}) <= 1

(***************************************************************************)
(* The notification bus                                                    *)
(***************************************************************************)
\* task t publishes an event in this step
Publishes(t) == tasks[t].pc # "notify" /\ tasks'[t].pc = "notify"

\* the await of task t on its publication ends in this step
Resumes(t) == tasks[t].pc = "notify" /\ tasks'[t].pc # "notify"

\* C19: a publication calls every listener registered when it is made,
\* whichever of them raise, and the publisher resumes after its await where
\* it would have without any failure.
C19_ListenerFailuresIsolated ==
    [][ \A t \in TaskIds :
          /\ Publishes(t) => tasks'[t].called = sessionChangeListeners
          /\ Resumes(t) => tasks'[t] = Return(tasks[t])
      ]_vars

\* C19 witness: a sign-out has published its logout event to the three
\* listeners, two of which raised, and has resumed in its finally block
C19_ResumedDespiteFailures ==
    \E t \in TaskIds :
        /\ tasks[t].pc = "csc_finally"
        /\ tasks[t].called = Listeners
        /\ tasks[t].waitL = {}

\* C20: when the await of a publisher on its publication ends, every
\* listener called for the event has completed or failed.
C20_ResumesAfterAllListeners ==
    [][ \A t \in TaskIds : Resumes(t) => tasks[t].waitL = {} ]_vars

\* C20 witness: one publisher has resumed after its listener completed
\* while the other one still waits for the listeners of its own event
C20_OneResumedOneWaiting ==
    \E t, u \in TaskIds :
        /\ tasks[t].pc = "csc_finally"
        /\ tasks[t].called # {}
        /\ tasks[t].waitL = {}
        /\ tasks[u].pc = "notify"
        /\ tasks[u].waitL # {}

(***************************************************************************)
(* Recovery, the cache window and the refresh slot                         *)
(***************************************************************************)
\* C22: when ensureValidSession() returns null, the live context has been
\* cleared, the provider's signOut has been called and a logout event has
\* been published.
C22_FailedRecoveryLogsOut ==
    [][ \A t \in TaskIds :
          (Returns(t, "ensureValidSession") /\ tasks'[t].res = NoSession)
          => /\ currentContext' = NoContext
             /\ tasks'[t].signedOut
             /\ \E i \in DOMAIN events' : events'[i].type = "logout"
      ]_vars

\* task t calls validateSession() in this step
CallsValidate(t) ==
    /\ Free(t)
    /\ tasks'[t].op = "validateSession"
    /\ tasks'[t].pc = "validate_await"

\* C24: a validate() call made 300000 ms or more after the start of the
\* last validation starts a new validation, settled or not; a call made
\* less than 300000 ms after that start with no invalidation in between
\* returns the promise of that validation and starts nothing.
C24_WindowFromStart ==
    [][ \A t \in TaskIds :
          (CallsValidate(t) /\ gLastStart # -1) =>
              IF now - gLastStart >= 300000
              THEN /\ Len(validations') = Len(validations) + 1
                   /\ tasks'[t].vid = Len(validations')
                   /\ gLastStart' = now
              ELSE ~gInval =>
                      /\ validations' = validations
                      /\ tasks'[t].vid = Len(validations)
      ]_vars

\* C24 witness: a second validation was started 5 minutes after the first
\* one, which has not settled
C24_RestartedWhilePending ==
    /\ Len(validations) = 2
    /\ validations[1].pc # "done"
    /\ gLastStart = 300000
    /\ \E t \in TaskIds : tasks[t].pc = "validate_await" /\ tasks[t].vid = 2

\* validation v settles in this step
SettlesValidation(v) ==
    /\ validations[v].pc # "done"
    /\ validations'[v].pc = "done"

\* C25: a validation that settles invalid while the provider holds a
\* session either awaited a refresh that yielded null or has failed in its
\* last attempt; a session that expires within 60000 ms is not probed but
\* refreshed; and a validation whose refresh yields a credential settles
\* valid with that credential.
C25_InvalidOnlyAfterRefresh ==
    [][ \A v \in DOMAIN validations :
          /\ ( /\ SettlesValidation(v)
               /\ ~validations'[v].res.isValid
               /\ provSession # NoSession )
             => \/ /\ validations[v].pc = "refresh"
                   /\ refreshes[validations[v].rid].pc = "done"
                   /\ refreshes[validations[v].rid].res = NoSession
                \/ /\ validations[v].attempt = 5
                   /\ validations'[v].res.error \in ErrorMessages
          /\ ( /\ validations[v].pc = "getSession"
               /\ provSession # NoSession
               /\ provSession.expires_at - now < 60000 )
             => /\ validations'[v].pc \in {"getSession", "refresh", "backoff", "done"}
                /\ validations'[v].probes = validations[v].probes
                /\ validations'[v].pc = "done" => validations[v].attempt = 5
          /\ ( /\ SettlesValidation(v)
               /\ validations[v].pc = "refresh"
               /\ refreshes[validations[v].rid].res # NoSession )
             => validations'[v].res = Valid(refreshes[validations[v].rid].res)
      ]_vars

\* C25 witness: a validation of a session about to expire has settled
\* invalid after its refresh yielded null, the provider still holding the
\* session
C25_ExpiredRefreshFailed ==
    /\ provSession # NoSession
    /\ \E v \in DOMAIN validations :
         /\ validations[v].pc = "done"
         /\ validations[v].res = Invalid("Failed to refresh expired token")
         /\ validations[v].probes = 0

\* C27: at most one refresh awaits the provider's answer.
C27_OneProviderRefreshOutstanding ==
    Cardinality({r \in DOMAIN refreshes : refreshes[r].pc \in {"primary", "fallback"}}) <= 1

(***************************************************************************)
(* initializeSession: the login path                                       *)
(***************************************************************************)
\* initializeSession() of task t resolves a context in this step
ResolvesContext(t) ==
    /\ tasks[t].op = "initializeSession"
    /\ tasks[t].pc = "init_getSession"
    /\ tasks'[t].pc = "notify"

\* C28: when initializeSession() resolves a context while no context is
\* live, that context becomes the live one, every storage key is kept, and
\* one event is published: a login with cleanup_performed false.
C28_LoginInstallsWithoutPurge ==
    [][ \A t \in TaskIds :
          (ResolvesContext(t) /\ currentContext = NoContext) =>
             /\ currentContext' # NoContext
             /\ currentContext'.user_id = provSession.user
             /\ currentContext'.tenant_id = TenantOfSession(provSession)
             /\ storage \subseteq storage'
             /\ Len(events') = Len(events) + 1
             /\ LET ev == events'[Len(events')] IN
                  /\ ev.type = "login"
                  /\ ev.cleanup_performed = FALSE
                  /\ ev.previous_context = NoContext
                  /\ ev.new_context = currentContext'
      ]_vars

\* C28 witness: initializeSession() has installed the first context of a
\* browser that holds pre-migration keys and awaits its login notification
C28_FirstContextInstalled ==
    \E t \in TaskIds :
      /\ tasks[t].op = "initializeSession"
      /\ tasks[t].pc = "notify"
      /\ tasks[t].prev = NoContext
      /\ currentContext = tasks[t].newc
      /\ events # <<>>
      /\ events[Len(events)].type = "login"
      /\ {LegacyKey(kind) : kind \in LegacyKinds} \subseteq storage

(***************************************************************************)
(* The session monitor, session ids and activity                           *)
(***************************************************************************)
\* the session monitor fires in this step, run by task t
MonitorFires(t) ==
    /\ calls' = calls + 1
    /\ tasks'[t].op = "sessionMonitor"
    /\ tasks'[t].seq = calls'

\* C21: a sweep that finds the live context idle for more than 86400000 ms
\* has, when it returns, published a cleanup event for that context and
\* left no key of its user in storage; a sweep that finds it idle for no
\* longer than that publishes nothing and changes neither storage nor the
\* context.
C21_SweepCleansUpIdleSession ==
    [][ \A t \in TaskIds :
          /\ (Returns(t, "sessionMonitor") /\ tasks'[t].expired)
             => /\ Published(events', "cleanup", tasks'[t].ctx0.user_id, Undefined)
                /\ KeysOfUser(storage', tasks'[t].ctx0.user_id) = {}
          /\ ( /\ MonitorFires(t)
               /\ currentContext # NoContext
               /\ now - currentContext.last_activity <= 86400000 )
             => /\ events' = events
                /\ storage' = storage
                /\ currentContext' = currentContext
      ]_vars

\* the events setSessionContext has published, one for each context that
\* was resolved and installed
Installations == {i \in DOMAIN events : events[i].type \in {"login", "user_change"}
                                        /\ ~events[i].cleanup_performed}

\* C26: no two contexts resolved by separate resolutions have the same
\* session_id.
C26_SessionIdsDistinct ==
    \A i, j \in Installations :
        i # j => events[i].new_context.session_id # events[j].new_context.session_id

\* C29: when initializeSession() resolves the user and tenant of the live
\* context, no storage key is removed and the live context keeps its
\* identity, its session_id and its login_timestamp.
C29_SameIdentityRefreshedInPlace ==
    [][ \A t \in TaskIds :
          ( /\ ResolvesContext(t)
            /\ currentContext # NoContext
            /\ provSession.user = currentContext.user_id
            /\ TenantOfSession(provSession) = currentContext.tenant_id )
          => /\ storage \subseteq storage'
             /\ currentContext'.user_id = currentContext.user_id
             /\ currentContext'.tenant_id = currentContext.tenant_id
             /\ currentContext'.session_id = currentContext.session_id
             /\ currentContext'.login_timestamp = currentContext.login_timestamp
      ]_vars

\* updateActivity() is called and returns in this step, run by task t
UpdatesActivity(t) ==
    /\ calls' = calls + 1
    /\ tasks'[t].op = "updateActivity"
    /\ tasks'[t].seq = calls'

\* C30: a call of updateActivity() returns in the step it is made; with a
\* live context it sets last_activity to the current time and leaves every
\* other field of the context as it was, without one it leaves the context
\* null; the validation cache, the refresh slot, the cleanup guard, the
\* listeners, storage, the provider, the published events and the other
\* callers are unchanged.
C30_UpdateActivityFrame ==
    [][ \A t \in TaskIds :
          UpdatesActivity(t) =>
             /\ tasks'[t].pc = "done"
             /\ IF currentContext = NoContext
                THEN currentContext' = NoContext
                ELSE /\ currentContext'.last_activity = now
                     /\ currentContext' =
                          [currentContext EXCEPT !.last_activity = now]
             /\ UNCHANGED <<sessionValidationPromise, lastValidationTime,
                            isRefreshing, refreshPromise, isCleanupInProgress,
                            sessionChangeListeners, storage, smContext,
                            provSession, nextCred, provEvents, events,
                            validations, refreshes, faults, now>>
             /\ \A s \in TaskIds \ {t} : tasks'[s] = tasks[s]
      ]_vars

\* C30 witness: updateActivity() has returned and the live context, which
\* it found, was active after it was created
C30_ActivityAdvanced ==
    /\ currentContext # NoContext
    /\ currentContext.last_activity > currentContext.login_timestamp
    /\ \E t \in TaskIds :
         /\ tasks[t].op = "updateActivity"
         /\ tasks[t].pc = "done"
         /\ tasks[t].ctx0 # NoContext
         /\ tasks[t].ctx0.session_id = currentContext.session_id

\* C30 witness: updateActivity() has returned without a live context
C30_NoContextNoOp ==
    /\ currentContext = NoContext
    /\ \E t \in TaskIds :
         /\ tasks[t].op = "updateActivity"
         /\ tasks[t].pc = "done"
         /\ tasks[t].ctx0 = NoContext

(***************************************************************************)
(* The logout flag                                                         *)
(***************************************************************************)
\* task t arrives at pc in this step
Enters(t, pc) == tasks[t].pc # pc /\ tasks'[t].pc = pc

\* C23: while window.__isLoggingOut is set, initAuth does not call
\* getSession(), tryRecover() is not called, and initializeSession() does
\* not resolve and install a context.
C23_NothingStartsDuringLogout ==
    [][ isLoggingOut =>
          \A t \in TaskIds :
             /\ ~Enters(t, "ia_getSession")
             /\ ~Enters(t, "ia_recover")
             /\ ~ResolvesContext(t)
      ]_vars

(***************************************************************************)
(* Events of identity transitions, results of initialization and of        *)
(* validation                                                              *)
(***************************************************************************)
\* the events that report the installation of a context
TransitionEvents ==
    {i \in DOMAIN events : events[i].type \in {"login", "user_change", "tenant_change"}}

\* C31: a transition publishes one event and its type tells what changed:
\* login has no previous context, user_change has differing user ids,
\* tenant_change has one user id and differing tenant ids; no two events
\* report the same transition.
C31_OneEventOfMatchingType ==
    /\ \A i \in TransitionEvents :
         LET ev == events[i] IN
         /\ ev.type = "login" => ev.previous_context = NoContext
         /\ ev.type = "user_change" =>
              /\ ev.previous_context # NoContext
              /\ ev.previous_context.user_id # ev.new_context.user_id
         /\ ev.type = "tenant_change" =>
              /\ ev.previous_context # NoContext
              /\ ev.previous_context.user_id = ev.new_context.user_id
              /\ ev.previous_context.tenant_id # ev.new_context.tenant_id
    /\ \A i, j \in TransitionEvents :
         ( /\ i < j
           /\ events[i].previous_context = events[j].previous_context
           /\ events[i].new_context = events[j].new_context
           /\ events[i].timestamp = events[j].timestamp )
         => FALSE

\* C33: when initializeSession() returns null, no context is live.
C33_NullMeansNoContext ==
    [][ \A t \in TaskIds :
          (Returns(t, "initializeSession") /\ tasks'[t].res = NoContext)
          => currentContext' = NoContext
      ]_vars

\* detectSessionCorruption of task t ends in this step with true although
\* no signal was seen: its getSession() or its health check threw (or the
\* health report was critical or corrupted)
CheckFailed(t) ==
    /\ \/ tasks[t].pc = "det_getSession" /\ ~UserMismatch
       \/ tasks[t].pc = "det_health"
    /\ tasks'[t].pc = "cas_signOut"

\* C34: when the corruption check cannot complete, clearAll() empties
\* storage in that step and the provider's signOut() is called; the check is
\* not run again, and initializeSession() returns null with no context live.
C34_FailedCheckIsCorruption ==
    [][ \A t \in TaskIds :
          /\ CheckFailed(t)
             => /\ tasks'[t].detected
                /\ tasks'[t].wiped
                /\ tasks'[t].signedOut
                /\ storage' = {}
          /\ (tasks[t].detected /\ ~Free(t))
             => tasks'[t].pc \notin {"det_getSession", "det_health", "init_getSession"}
          /\ (Returns(t, "initializeSession") /\ tasks'[t].detected)
             => /\ tasks'[t].res = NoContext
                /\ currentContext' = NoContext
      ]_vars

\* C34 witness: initializeSession(), called under a context of the user
\* the provider holds, has returned null after the wipe and the sign-out
C34_FailedCheckWiped ==
    \E t \in TaskIds :
        /\ tasks[t].pc = "done"
        /\ tasks[t].op = "initializeSession"
        /\ tasks[t].ctx0 # NoContext
        /\ tasks[t].prov0 = tasks[t].ctx0.user_id
        /\ tasks[t].detected
        /\ WipedAndSignedOut(tasks[t])
        /\ currentContext = NoContext

C32_ValidForLiveUser ==
    [][ \A t \in TaskIds :
          ( /\ Returns(t, "validateSession")
            /\ tasks'[t].res.isValid
            /\ currentContext' # NoContext )
          => tasks'[t].res.session.user = currentContext'.user_id
      ]_vars

(***************************************************************************)
(* signOut of the auth provider component                                  *)
(***************************************************************************)
\* signOut() of the component, run by task t, ends in this step: the states
\* are reset and the timer is set
SignOutEnds(t) ==
    /\ tasks'[t].op = "AuthContext.signOut"
    /\ Enters(t, "aso_timer")

\* C36: when signOut() of the component ends, user is null and
\* isAuthenticated is false, whether the provider's signOut() answered or
\* threw or a clearing call threw; when the provider's signOut() is called,
\* the flag is set and localStorage has been emptied; every signOut() that
\* awaits the provider ends, and a flag that is set is reset.
C36_SignOutCompletes ==
    /\ [][ \A t \in TaskIds :
             /\ SignOutEnds(t) => (user' = Undefined /\ isAuthenticated' = FALSE)
             /\ Enters(t, "aso_signOut")
                => /\ isLoggingOut'
                   /\ storage' = {}
                   /\ tasks'[t].wiped
         ]_vars
    /\ \A t \in TaskIds :
         (tasks[t].pc = "aso_signOut") ~> (tasks[t].pc = "aso_timer")
    /\ isLoggingOut ~> ~isLoggingOut

\* C36 witness: a signOut() of a signed-in user has ended and its timer has
\* fired although the provider's signOut() did not remove the session
C36_SignedOutAfterFailure ==
    /\ ~isLoggingOut
    /\ user = Undefined
    /\ ~isAuthenticated
    /\ provSession # NoSession
    /\ \E t \in TaskIds :
         /\ tasks[t].op = "AuthContext.signOut"
         /\ tasks[t].pc = "done"
         /\ tasks[t].signedOut

====
